---- MODULE Spec2Model ----
(***************************************************************************)
(* TaskDroid: the Navigator control loop (task_droid/agent_core/           *)
(* navigator.py) with the collaborators it calls.  One run of              *)
(* Navigator.run is a sequential process; pc is its position.              *)
(***************************************************************************)
EXTENDS Integers, Sequences, FiniteSets, TLC

(* ------------------------------ bounds -------------------------------- *)
\* largest configured round budget explored
MaxRoundsBound == 2
\* longest decomposition response, in tokens
MaxRespLen == 5
\* largest number of interactive elements on a screen
MaxElems == 2
\* longest model response given to parse_action_response, in characters
MaxTextLen == 4
\* largest number of nodes in a UI-tree snapshot
MaxNodes == 3
\* calls of extract_interactive_elements made on one snapshot
MaxRuns == 2
\* most arguments in an action line given to parse_action_response
MaxArgs == 2
\* largest `retries` argument given to install_apk
MaxRetries == 3

(* ------------------------- program constants -------------------------- *)
initial_load_attempts == 5
\* install_apk: default of its retries parameter
DEFAULT_RETRIES == 2

ERROR == "ERROR"
PATH == "path"
task_desc == "task"
SUMMARY_INIT == "None"
SUMMARY_PARSE_FAIL == "Failed to parse VLM response. Will retry."
SUMMARY_DEFAULT == "No summary provided."
EXPLORE_DIRECTIVE == "Explore freely."
None == [action_name |-> "", action_params |-> <<>>, summary |-> ""]

(* ------------------- task decomposition: text -> plan ------------------ *)
\* A decomposition response is a sequence of tokens: brackets, a string
\* literal "s", a comma, and "w" for any other text.
Tokens == {"[", "]", "s", ",", "w"}

RECURSIVE SeqsUpTo(_, _)
SeqsUpTo(S, n) ==
    IF n = 0 THEN {<<>>}
    ELSE LET shorter == SeqsUpTo(S, n - 1)
         IN shorter \cup {Append(q, x) : q \in {r \in shorter : Len(r) = n - 1}, x \in S}

ResponseTexts == SeqsUpTo(Tokens, MaxRespLen)

\* positions of the first "[" and of the last "]" (0 when absent)
FirstOpen(text) ==
    IF \E i \in 1..Len(text) : text[i] = "["
    THEN CHOOSE i \in 1..Len(text) : text[i] = "[" /\ \A j \in 1..(i - 1) : text[j] # "["
    ELSE 0

LastClose(text) ==
    IF \E i \in 1..Len(text) : text[i] = "]"
    THEN CHOOSE i \in 1..Len(text) : text[i] = "]" /\ \A j \in (i + 1)..Len(text) : text[j] # "]"
    ELSE 0

\* re.search(r'\[.*\]', response, re.DOTALL): leftmost "[", greedy to the
\* last "]" after it; <<>> when there is no match
ListMatch(text) ==
    IF FirstOpen(text) > 0 /\ LastClose(text) > FirstOpen(text)
    THEN SubSeq(text, FirstOpen(text), LastClose(text))
    ELSE <<>>

\* index of the "]" closing a "[" whose interior starts at j (0 when none)
RECURSIVE ScanClose(_, _, _)
ScanClose(text, j, depth) ==
    IF j > Len(text) THEN 0
    ELSE IF text[j] = "[" THEN ScanClose(text, j + 1, depth + 1)
    ELSE IF text[j] = "]" THEN (IF depth = 1 THEN j ELSE ScanClose(text, j + 1, depth - 1))
    ELSE ScanClose(text, j + 1, depth)

\* length of the run of adjacent string literals starting at position 1
RECURSIVE StrRun(_, _)
StrRun(text, k) ==
    IF k < Len(text) /\ text[k + 1] = "s" THEN StrRun(text, k + 1) ELSE k

EvalFail == [ok |-> FALSE, val |-> <<>>]

\* ast.literal_eval on the items between a list's brackets, and on a
\* bracketed list; val holds one entry "g" per list item
RECURSIVE EvalItems(_)
RECURSIVE EvalList(_)
EvalItems(inner) ==
    IF inner = <<>> THEN [ok |-> TRUE, val |-> <<>>]
    ELSE LET k == IF inner[1] = "s" THEN StrRun(inner, 1)
                  ELSE IF inner[1] = "[" THEN ScanClose(inner, 2, 1)
                  ELSE 0
             v == "g"
             firstOk == /\ k > 0
                        /\ (inner[1] = "[" => EvalList(SubSeq(inner, 1, k)).ok)
         IN IF ~firstOk THEN EvalFail
            ELSE IF k = Len(inner) THEN [ok |-> TRUE, val |-> <<v>>]
            ELSE IF inner[k + 1] # "," THEN EvalFail
            ELSE IF k + 1 = Len(inner) THEN [ok |-> TRUE, val |-> <<v>>]
            ELSE LET rest == EvalItems(SubSeq(inner, k + 2, Len(inner)))
                 IN IF rest.ok THEN [ok |-> TRUE, val |-> <<v>> \o rest.val]
                    ELSE EvalFail

EvalList(text) ==
    IF Len(text) >= 2 /\ text[1] = "[" /\ ScanClose(text, 2, 1) = Len(text)
    THEN EvalItems(SubSeq(text, 2, Len(text) - 1))
    ELSE EvalFail

\* Navigator._decompose_task_into_sub_goals: the plan left in sub_goals
DecomposeFallbackEmpty(desc) == <<>>
DecomposeFallback(desc) == <<desc>>

DecomposePlan(success, text, desc) ==
    IF success
    THEN IF ListMatch(text) # <<>> /\ EvalList(ListMatch(text)).ok
         THEN EvalList(ListMatch(text)).val
         ELSE DecomposeFallback(desc)
    ELSE DecomposeFallback(desc)

\* which branch of _decompose_task_into_sub_goals a response takes
DecompositionKind(success, text) ==
    IF ~success THEN "call_failed"
    ELSE IF ListMatch(text) = <<>> THEN "no_list"
    ELSE IF ~EvalList(ListMatch(text)).ok THEN "bad_literal"
    ELSE "list"

FailureKinds == {"call_failed", "no_list", "bad_literal"}

\* run, line 190: `if not self.sub_goals`
PlanMissingIgnored(plan) == FALSE
PlanMissing(plan) == plan = <<>>

(* --------------------------- parsed actions --------------------------- *)
\* an action parameter is an int or a string (response_parser.py:85-86)
PInt(n) == [isInt |-> TRUE, n |-> n, s |-> ""]
PStr(s) == [isInt |-> FALSE, n |-> 0, s |-> s]

\* the keys of action_map in Navigator._execute_action
ActionMap ==
    {"tap", "type_text", "long_press", "swipe_element", "swipe_screen",
     "wait", "go_back", "press_enter", "delete_multiple", "finish"}

ElementActions == {"tap", "long_press", "swipe_element"}

NoReflectActions == {"finish", "wait", "grid", "subgoal_complete"}

\* action names a response can carry: the table, the meta-actions handled
\* in run, a grid command and a name no table knows
ActionNames == ActionMap \cup {"subgoal_complete", "grid", "tap_grid", "bogus"}

\* parameter lists tried with each action name: none, an empty string
\* (what `name()` parses to), text, and indexes in and out of range
ParamsFor(name) ==
    CASE name = "tap" -> {<<>>, <<PStr("")>>} \cup {<<PInt(n)>> : n \in 0..(MaxElems + 1)}
      [] name = "long_press" -> {<<PInt(1)>>, <<PInt(MaxElems + 1)>>}
      [] name = "swipe_element" -> {<<PInt(1)>>, <<PInt(1), PStr("up"), PStr("medium")>>}
      [] name = "type_text" -> {<<>>, <<PStr("")>>, <<PStr("up")>>}
      [] name = "swipe_screen" -> {<<>>, <<PStr("")>>, <<PStr("up")>>, <<PInt(1)>>}
      [] name = "wait" -> {<<>>, <<PInt(1)>>, <<PStr("up")>>}
      [] name = "delete_multiple" -> {<<>>, <<PStr("")>>, <<PInt(0)>>, <<PInt(2)>>}
      [] name = "tap_grid" -> {<<PInt(1), PStr("up")>>}
      [] OTHER -> {<<>>, <<PStr("")>>}

(* -------------- response parser: parse_action_response --------------- *)
\* A response is a sequence of characters.  "Action:" and "Summary:" stand
\* for the section markers in any letter case, "NL" for a newline, "bt" for a backtick, "a" for
\* a lowercase letter, "T" for an uppercase letter, "1" for a decimal
\* digit, "sup2" for a digit character int() does not accept, and
\* "type_text" for that word.
ACTION_MARK == "Action:"
SUMMARY_MARK == "Summary:"
THOUGHT_MARK == "Thought:"
DECISION_MARK == "Decision:"
DOCUMENTATION_MARK == "Documentation:"
NL == "NL"
BACKTICK == "bt"
TYPE_TEXT == "type_text"

ParseChars ==
    {ACTION_MARK, SUMMARY_MARK, NL, " ", BACKTICK, "a", "T", "1", "sup2",
     TYPE_TEXT, "(", ")", ","}

\* the texts given to the parser: up to MaxTextLen characters, alone or
\* after an "Action:" marker
WithMarker(t) == {t, <<ACTION_MARK>> \o t}

\* character classes: \w, \s, str.isdigit, the digits int() accepts,
\* and the characters str.lower changes
WordChars == {"a", "t", "T", "1", "sup2", TYPE_TEXT}
SpaceChars == {" ", NL}
DigitChars == {"1", "sup2"}
IntDigits == {"1"}
UpperChars == {"T"}

\* str.lower, character by character
LowerKept(c) == c
Lower(c) == IF c = "T" THEN "t" ELSE c

LowerAll(str) == [i \in 1..Len(str) |-> Lower(str[i])]

\* the characters of a marker that lies inside a matched group: a
\* capitalised word and a colon
MarkerText(c) ==
    IF c \in {ACTION_MARK, SUMMARY_MARK, THOUGHT_MARK, DECISION_MARK, DOCUMENTATION_MARK}
    THEN <<"T", "a", ":">> ELSE <<c>>

RECURSIVE Expand(_)
Expand(str) == IF str = <<>> THEN <<>> ELSE MarkerText(Head(str)) \o Expand(Tail(str))

\* index of the first and of the last occurrence of c (0 when absent)
FirstIndex(str, c) ==
    IF \E i \in 1..Len(str) : str[i] = c
    THEN CHOOSE i \in 1..Len(str) : str[i] = c /\ \A j \in 1..(i - 1) : str[j] # c
    ELSE 0

LastIndex(str, c) ==
    IF \E i \in 1..Len(str) : str[i] = c
    THEN CHOOSE i \in 1..Len(str) : str[i] = c /\ \A j \in (i + 1)..Len(str) : str[j] # c
    ELSE 0

\* str.strip(chars)
RECURSIVE LStrip(_, _)
LStrip(str, chars) ==
    IF str # <<>> /\ Head(str) \in chars THEN LStrip(Tail(str), chars) ELSE str

RECURSIVE RStrip(_, _)
RStrip(str, chars) ==
    IF str # <<>> /\ str[Len(str)] \in chars
    THEN RStrip(SubSeq(str, 1, Len(str) - 1), chars) ELSE str

Strip(str, chars) == RStrip(LStrip(str, chars), chars)

\* str.split('\n')[0]
FirstLine(str) ==
    IF FirstIndex(str, NL) = 0 THEN str ELSE SubSeq(str, 1, FirstIndex(str, NL) - 1)

\* str.split(sep): the pieces between separators, at least one
RECURSIVE Split(_, _)
Split(str, sep) ==
    IF FirstIndex(str, sep) = 0 THEN <<str>>
    ELSE <<SubSeq(str, 1, FirstIndex(str, sep) - 1)>>
         \o Split(SubSeq(str, FirstIndex(str, sep) + 1, Len(str)), sep)

\* _extract_section for the patterns "<marker>\s*(.*?)(<stop>|$)" and
\* "<marker>\s*(.*)" (stop = ""): the stripped group, <<>> when the marker
\* is absent or the group is empty
ExtractSection(text, marker, stop) ==
    IF FirstIndex(text, marker) = 0 THEN <<>>
    ELSE LET rest == SubSeq(text, FirstIndex(text, marker) + 1, Len(text))
             group == IF FirstIndex(rest, stop) = 0 THEN rest
                      ELSE SubSeq(rest, 1, FirstIndex(rest, stop) - 1)
         IN Strip(Expand(group), SpaceChars)

DEFAULT_THOUGHT == <<"No thought provided.">>
DEFAULT_SUMMARY == <<SUMMARY_DEFAULT>>

\* `x or default`
OrDefaultKept(x, default) == x
OrDefault(x, default) == IF x = <<>> THEN default ELSE x

\* re.search(r"(\w+\(.*\))", line): index of the first "(" that follows a
\* word character, provided a ")" comes after it (0 when no match)
CommandOpen(line) ==
    LET opens == {j \in 2..Len(line) : line[j] = "(" /\ line[j - 1] \in WordChars}
    IN IF opens = {} THEN 0
       ELSE LET j == CHOOSE k \in opens : \A m \in opens : k <= m
            IN IF LastIndex(line, ")") > j THEN j ELSE 0

\* start of the run of word characters that ends right before index j
RECURSIVE WordStart(_, _)
WordStart(line, j) ==
    IF j > 1 /\ line[j - 1] \in WordChars THEN WordStart(line, j - 1) ELSE j

\* re.search(r"^(\w+)", line): length of the leading run of word characters
RECURSIVE WordRun(_, _)
WordRun(line, k) ==
    IF k < Len(line) /\ line[k + 1] \in WordChars THEN WordRun(line, k + 1) ELSE k

\* int() of a string of decimal digits
RECURSIVE IntOf(_)
IntOf(digits) ==
    IF digits = <<>> THEN 0
    ELSE 10 * IntOf(SubSeq(digits, 1, Len(digits) - 1)) + 1

IsDigit(str) == str # <<>> /\ \A i \in 1..Len(str) : str[i] \in DigitChars

\* lines 78-87: one raw parameter to its value; fault when int() raises
ParamValueCoerceAll(name, p) ==
    LET val == IF FirstIndex(p, ":") > 0
               THEN Strip(SubSeq(p, FirstIndex(p, ":") + 1, Len(p)), SpaceChars)
               ELSE p
        val_cleaned == Strip(val, {" ", "'", "\""})
    IN IF IsDigit(val_cleaned)
       THEN IF \A i \in 1..Len(val_cleaned) : val_cleaned[i] \in IntDigits
            THEN [fault |-> FALSE, val |-> PInt(IntOf(val_cleaned))]
            ELSE [fault |-> TRUE, val |-> PStr(<<>>)]
       ELSE [fault |-> FALSE, val |-> PStr(val_cleaned)]
ParamValue(name, p) ==
    LET val == IF FirstIndex(p, ":") > 0
               THEN Strip(SubSeq(p, FirstIndex(p, ":") + 1, Len(p)), SpaceChars)
               ELSE p
        val_cleaned == Strip(val, {" ", "'", "\""})
    IN IF name # <<TYPE_TEXT>> /\ IsDigit(val_cleaned)
       THEN IF \A i \in 1..Len(val_cleaned) : val_cleaned[i] \in IntDigits
            THEN [fault |-> FALSE, val |-> PInt(IntOf(val_cleaned))]
            ELSE [fault |-> TRUE, val |-> PStr(<<>>)]
       ELSE [fault |-> FALSE, val |-> PStr(val_cleaned)]

\* lines 74-87: the parameter list of a command "name(params_str)"
ParamValues(name, params_str) ==
    LET raw_params == Split(Strip(params_str, SpaceChars), ",")
    IN [i \in 1..Len(raw_params) |-> ParamValue(name, Strip(raw_params[i], SpaceChars))]

\* the values parse_action_response returns: None, or the dict
ParseNone ==
    [is_none |-> TRUE, keys |-> {}, thought |-> <<>>, action_name |-> <<>>,
     action_params |-> <<>>, summary |-> <<>>]

ParsedDict(thought, name, params, summary) ==
    [is_none |-> FALSE,
     keys |-> {"thought", "action_name", "action_params", "summary"},
     thought |-> thought, action_name |-> name, action_params |-> params,
     summary |-> summary]

\* response_parser.parse_action_response; an exception inside the try
\* block returns None (lines 93-95)
parse_action_response(response) ==
    IF FirstIndex(response, ACTION_MARK) = 0 THEN ParseNone
    ELSE LET group == Expand(SubSeq(response, FirstIndex(response, ACTION_MARK) + 1,
                                    Len(response)))
             action_line == Strip(FirstLine(LStrip(group, SpaceChars)), SpaceChars)
             action_str_cleaned == Strip(action_line, {BACKTICK, " "})
             open == CommandOpen(action_str_cleaned)
             close == LastIndex(action_str_cleaned, ")")
             thought == OrDefault(ExtractSection(response, THOUGHT_MARK, ACTION_MARK),
                                  DEFAULT_THOUGHT)
             summary == OrDefault(ExtractSection(response, SUMMARY_MARK, ""),
                                  DEFAULT_SUMMARY)
         IN IF open > 0
            THEN LET name == LowerAll(SubSeq(action_str_cleaned,
                                             WordStart(action_str_cleaned, open), open - 1))
                     values == ParamValues(name, SubSeq(action_str_cleaned, open + 1, close - 1))
                 IN IF \E i \in 1..Len(values) : values[i].fault THEN ParseNone
                    ELSE ParsedDict(thought, name,
                                    [i \in 1..Len(values) |-> values[i].val], summary)
            ELSE IF action_str_cleaned # <<>> /\ action_str_cleaned[1] \in WordChars
            THEN ParsedDict(thought,
                            LowerAll(SubSeq(action_str_cleaned, 1,
                                            WordRun(action_str_cleaned, 1))),
                            <<>>, summary)
            ELSE ParseNone

\* ---- the parsed actions handed to the loop ----
\* what the Summary regex of line 68 extracts: nothing (no section, or an
\* empty one), or a text
SummarySections == {<<>>, <<"a">>}

\* the summary of a parsed response as the loop's string: empty, the
\* placeholder of line 68, or some other text
SummaryText(summary) ==
    IF summary = <<>> THEN ""
    ELSE IF summary = DEFAULT_SUMMARY THEN SUMMARY_DEFAULT
    ELSE "sum"

\* line 68 and navigator.py line 289: the summaries a parsed action carries
Summaries == {SummaryText(OrDefault(s, DEFAULT_SUMMARY)) : s \in SummarySections}

SummariesFor(params) == IF params = <<>> THEN Summaries ELSE Summaries \ {SUMMARY_DEFAULT}

ParsedAction(name, params, summary) ==
    [action_name |-> name, action_params |-> params, summary |-> summary]

ParsedActions ==
    UNION {UNION {{ParsedAction(n, p, t) : t \in SummariesFor(p)} : p \in ParamsFor(n)} :
           n \in ActionNames}

\* what the model call and the parse of its answer can hand to the loop
ParseResults == {None} \cup ParsedActions

(* ------------------------------ elements ------------------------------ *)
UIDNames == <<"u1", "u2", "u3", "u4", "u5">>
UIDSet == {UIDNames[i] : i \in 1..MaxElems}

\* the element lists an extraction can return, by uid
ElementLists == {SubSeq(UIDNames, 1, n) : n \in 0..MaxElems}

(* ------------- ui_parser: extract_interactive_elements ---------------- *)
\* The `bounds` attribute of a node: absent or empty (given = FALSE), or a
\* string whose comma-separated pieces are all integers or not (ints), the
\* integers being coords.
NoBounds == [given |-> FALSE, ints |-> TRUE, coords |-> <<>>]
TextBounds == [given |-> TRUE, ints |-> FALSE, coords |-> <<>>]
ShortBounds == [given |-> TRUE, ints |-> TRUE, coords |-> <<0, 0>>]
Box(x1, y1, x2, y2) == [given |-> TRUE, ints |-> TRUE, coords |-> <<x1, y1, x2, y2>>]

\* A node of the tree: its flags, its bounds, resource-id and content-desc
\* as characters, its class, and which keyword families its resource-id,
\* content-desc and text contain.
XmlNode(clickable, focusable, bounds, rid, desc, words) ==
    [clickable |-> clickable, focusable |-> focusable, bounds |-> bounds,
     rid |-> rid, desc |-> desc, class |-> "View", words |-> words]

\* the nodes snapshots are built from.  With a minimum distance of 3 the
\* centers (1,1), (2,2), (3,3) are pairwise close except the first and last.
NodeKinds ==
    {XmlNode(TRUE, FALSE, Box(0, 0, 3, 3), <<>>, <<>>, {}),
     XmlNode(TRUE, FALSE, Box(1, 1, 4, 4), <<"a", ":", "i", "/", "b">>, <<>>, {}),
     XmlNode(FALSE, TRUE, Box(2, 2, 5, 5), <<>>, <<"o", " ", "k">>, {"nav"}),
     XmlNode(TRUE, TRUE, Box(0, 10, 2, 12), <<>>, <<>>, {"search", "nav"}),
     XmlNode(FALSE, FALSE, Box(0, 0, 3, 3), <<>>, <<>>, {}),
     XmlNode(TRUE, FALSE, NoBounds, <<>>, <<>>, {}),
     XmlNode(TRUE, FALSE, TextBounds, <<>>, <<>>, {}),
     XmlNode(FALSE, TRUE, ShortBounds, <<>>, <<>>, {}),
     XmlNode(TRUE, FALSE, Box(8, 0, 8, 2), <<>>, <<>>, {})}

\* the values of device.min_element_dist explored; 20 is the default
MinDists == {0, 3, 20}

\* parent_map (line 73) for the two tree shapes explored: every node a
\* child of the root, or every node a child of the node before it; 0 is
\* "no parent"
TreeShapes == {"flat", "chain"}
ParentOf(shape, i) == IF i = 1 THEN 0 ELSE IF shape = "flat" THEN 1 ELSE i - 1

\* lines 13-18 of _generate_element_uid: width and height, 0x0 when the
\* bounds do not parse
ElemSize(bounds) ==
    IF bounds.given /\ bounds.ints /\ Len(bounds.coords) >= 4
    THEN <<bounds.coords[3] - bounds.coords[1], bounds.coords[4] - bounds.coords[2]>>
    ELSE <<0, 0>>

\* line 24
SanitizeId(rid) ==
    [i \in 1..Len(rid) |-> IF rid[i] = "/" THEN "_" ELSE IF rid[i] = ":" THEN "." ELSE rid[i]]

\* line 32: only alphanumerics, "_" and "-" are kept
IsAlnum(c) == c \in {"a", "b", "i", "o", "k"}
KeptInDesc(c) == IsAlnum(c) \/ c \in {"_", "-"}
SanitizeDesc(desc) == SelectSeq(desc, KeptInDesc)

\* lines 20-33: the identifier, as its parts: the sanitized resource-id, or
\* class and size when there is none, and the sanitized content-desc ("no"
\* suffix is the empty desc part with suffix = FALSE)
OwnUid(elem) ==
    LET size == ElemSize(elem.bounds)
        suffix == elem.desc # <<>> /\ Len(elem.desc) < 25
    IN [rid |-> SanitizeId(elem.rid),
        class |-> IF elem.rid # <<>> THEN "" ELSE elem.class,
        w |-> IF elem.rid # <<>> THEN 0 ELSE size[1],
        h |-> IF elem.rid # <<>> THEN 0 ELSE size[2],
        suffix |-> suffix,
        desc |-> IF suffix THEN SanitizeDesc(elem.desc) ELSE <<>>]

\* lines 36-50
RoleHint(elem) ==
    IF "search" \in elem.words THEN "search_bar"
    ELSE IF "nav" \in elem.words THEN "nav_item"
    ELSE ""

\* the identifier of an element with no parent prefix
NoUid == [rid |-> <<>>, class |-> "", w |-> 0, h |-> 0, suffix |-> FALSE, desc |-> <<>>]

\* lines 98-102: the identifier of node i, prefixed by its parent's
ElementUid(nodes, shape, i) ==
    [parent |-> IF ParentOf(shape, i) = 0 THEN NoUid ELSE OwnUid(nodes[ParentOf(shape, i)]),
     own |-> OwnUid(nodes[i])]

\* lines 105-107
Attributes(elem) ==
    [flag |-> IF elem.clickable THEN "clickable" ELSE "focusable", role_hint |-> RoleHint(elem)]

UIElement(uid, bbox, attributes) == [uid |-> uid, bbox |-> bbox, attributes |-> attributes]

\* lines 86 and 90: the center of a bounding box, by floor division
Center(bbox) ==
    <<(bbox[1][1] + bbox[2][1]) \div 2, (bbox[1][2] + bbox[2][2]) \div 2>>

Abs(n) == IF n < 0 THEN -n ELSE n
Manhattan(c, d) == Abs(c[1] - d[1]) + Abs(c[2] - d[2])

\* lines 87-93: some element kept so far is closer than min_dist
TooCloseNever(center, kept, min_dist) == FALSE
TooClose(center, kept, min_dist) ==
    \E k \in 1..Len(kept) : Manhattan(center, Center(kept[k].bbox)) < min_dist

\* line 76
Interactive(elem) == elem.clickable \/ elem.focusable

\* line 82-83 raise ValueError or IndexError (caught at line 111)
BoundsFault(bounds) == ~bounds.ints \/ Len(bounds.coords) < 4

\* lines 79 and 113: `continue`, the node the loop goes on with after a
\* node without usable bounds
SkipNodeAbandon(nodes, i) == Len(nodes) + 1
SkipNode(nodes, i) == i + 1

\* lines 75-113: the loop over root.iter(), which visits the nodes in
\* document order; `kept` pairs the list built so far with the positions
\* of the nodes its elements came from
RECURSIVE ExtractFrom(_, _, _, _, _)
ExtractFrom(nodes, shape, min_dist, i, kept) ==
    IF i > Len(nodes) THEN kept
    ELSE LET elem == nodes[i]
             coords == elem.bounds.coords
             bbox == <<<<coords[1], coords[2]>>, <<coords[3], coords[4]>>>>
         IN IF ~Interactive(elem)
            THEN ExtractFrom(nodes, shape, min_dist, i + 1, kept)
            ELSE IF ~elem.bounds.given \/ BoundsFault(elem.bounds)
            THEN ExtractFrom(nodes, shape, min_dist, SkipNode(nodes, i), kept)
            ELSE IF TooClose(Center(bbox), kept.elements, min_dist)
            THEN ExtractFrom(nodes, shape, min_dist, i + 1, kept)
            ELSE ExtractFrom(nodes, shape, min_dist, i + 1,
                     [elements |-> Append(kept.elements,
                                          UIElement(ElementUid(nodes, shape, i), bbox,
                                                    Attributes(elem))),
                      nodes |-> Append(kept.nodes, i)])

\* line 68: the list a call starts from, whatever earlier calls returned
InitialElementsKept(earlier) ==
    IF earlier = <<>> THEN [elements |-> <<>>, nodes |-> <<>>] ELSE earlier[Len(earlier)]
InitialElements(earlier) == [elements |-> <<>>, nodes |-> <<>>]

\* a snapshot: the path handed to the function, whether the file is
\* well-formed XML, and its tree
Snapshot(path, well_formed, shape, nodes) ==
    [xml_path |-> path, well_formed |-> well_formed, shape |-> shape, nodes |-> nodes]

\* lines 65-66, 115-117, 119
extract_interactive_elements(snap, min_dist, earlier) ==
    IF snap.xml_path = "" \/ snap.xml_path = ERROR
    THEN [elements |-> <<>>, nodes |-> <<>>]
    ELSE IF ~snap.well_formed
    THEN [elements |-> <<>>, nodes |-> <<>>]
    ELSE ExtractFrom(snap.nodes, snap.shape, min_dist, 1, InitialElements(earlier))

(* --------------------------- device operator -------------------------- *)
DevOp(op, target, text) == [op |-> op, target |-> target, text |-> text]

SwipeDirections == {"up", "down", "left", "right"}

RECURSIVE Repeat(_, _)
Repeat(x, n) == IF n <= 0 THEN <<>> ELSE <<x>> \o Repeat(x, n - 1)

\* the handler lambdas of action_map: the device operations a handler
\* issues, or a fault when evaluating its arguments raises
HandlerResult(fault, ops, finish) == [fault |-> fault, ops |-> ops, finish |-> finish]

Handler(name, p) ==
    CASE name \in {"tap", "long_press"} ->
           HandlerResult(FALSE, <<DevOp(name, p[1].n, "")>>, FALSE)
      [] name = "swipe_element" ->
           IF Len(p) < 3 THEN HandlerResult(TRUE, <<>>, FALSE)
           ELSE HandlerResult(FALSE, <<DevOp("swipe", p[1].n, "")>>, FALSE)
      [] name = "type_text" ->
           IF p[1].isInt THEN HandlerResult(TRUE, <<>>, FALSE)
           ELSE HandlerResult(FALSE, <<DevOp("type_text", 0, p[1].s)>>, FALSE)
      [] name = "swipe_screen" ->
           IF p = <<>> \/ p[1].isInt THEN HandlerResult(TRUE, <<>>, FALSE)
           ELSE IF p[1].s \in SwipeDirections
                THEN HandlerResult(FALSE, <<DevOp("swipe", 0, p[1].s)>>, FALSE)
                ELSE HandlerResult(FALSE, <<>>, FALSE)
      [] name = "wait" ->
           IF p = <<>> \/ ~p[1].isInt THEN HandlerResult(TRUE, <<>>, FALSE)
           ELSE HandlerResult(FALSE, <<>>, FALSE)
      [] name = "go_back" -> HandlerResult(FALSE, <<DevOp("back", 0, "")>>, FALSE)
      [] name = "press_enter" -> HandlerResult(FALSE, <<DevOp("enter", 0, "")>>, FALSE)
      [] name = "delete_multiple" ->
           IF p = <<>> \/ ~p[1].isInt THEN HandlerResult(TRUE, <<>>, FALSE)
           ELSE HandlerResult(FALSE, Repeat(DevOp("delete", 0, ""), p[1].n), FALSE)
      [] name = "finish" -> HandlerResult(FALSE, <<>>, TRUE)

ExecResult(fault, ops, uid, idx, finish) ==
    [fault |-> fault, ops |-> ops, uid |-> uid, idx |-> idx, finish |-> finish]

ExecSkip == ExecResult(FALSE, <<>>, "", -1, FALSE)
ExecFault == ExecResult(TRUE, <<>>, "", -1, FALSE)

\* Navigator._execute_action
ExecuteActionUnchecked(name, params, elements) ==
    IF name = "type_text" /\ params = <<>> THEN ExecSkip
    ELSE IF name \notin ActionMap THEN ExecFault
    ELSE IF name \in ElementActions
    THEN IF elements = <<>> THEN ExecSkip
         ELSE IF params = <<>> \/ ~params[1].isInt THEN ExecFault
         ELSE IF 1 <= params[1].n /\ params[1].n <= Len(elements)
              THEN LET h == Handler(name, params)
                   IN ExecResult(h.fault, h.ops, elements[params[1].n], params[1].n, h.finish)
              ELSE ExecSkip
    ELSE LET h == Handler(name, params)
         IN ExecResult(h.fault, h.ops, "", -1, h.finish)
ExecuteAction(name, params, elements) ==
    IF name = "type_text" /\ params = <<>> THEN ExecSkip
    ELSE IF name \notin ActionMap THEN ExecSkip
    ELSE IF name \in ElementActions
    THEN IF elements = <<>> THEN ExecSkip
         ELSE IF params = <<>> \/ ~params[1].isInt THEN ExecFault
         ELSE IF 1 <= params[1].n /\ params[1].n <= Len(elements)
              THEN LET h == Handler(name, params)
                   IN ExecResult(h.fault, h.ops, elements[params[1].n], params[1].n, h.finish)
              ELSE ExecSkip
    ELSE LET h == Handler(name, params)
         IN ExecResult(h.fault, h.ops, "", -1, h.finish)

(* ----------------------------- reflection ----------------------------- *)
Decisions == {"SUCCESS", "CONTINUE", "INEFFECTIVE", "BACK"}
DOC_NA == "N/A"
DocTexts == {DOC_NA, "d1"}
NoVerdict == [decision |-> "", documentation |-> ""]
Verdicts == [decision : Decisions, documentation : DocTexts]

\* ---- response_parser.parse_reflection_response ----
\* A reflection response is a sequence of the three section markers, the
\* four decision words in capitals, "back" for a decision word in another
\* letter case, "w" for any other word, a space and a newline.
ReflectChars ==
    {DECISION_MARK, THOUGHT_MARK, DOCUMENTATION_MARK, "BACK", "back", "SUCCESS",
     "CONTINUE", "INEFFECTIVE", "w", " ", NL}

\* str.upper, character by character
Upper(c) ==
    CASE c = "back" -> "BACK"
      [] c = "w" -> "W"
      [] c = "a" -> "A"
      [] OTHER -> c

UpperAll(str) == [i \in 1..Len(str) |-> Upper(str[i])]

\* line 20: valid_decisions, each as a text of one word
ValidDecisions == {<<d>> : d \in Decisions}

\* lines 21-24: the decision returned for the text of the Decision section
ReturnedDecisionUnchecked(decision) == UpperAll(decision)
ReturnedDecision(decision) ==
    IF UpperAll(decision) \in ValidDecisions THEN UpperAll(decision) ELSE <<"CONTINUE">>

\* the values parse_reflection_response returns: None, or the dict
ReflectNone ==
    [is_none |-> TRUE, decision |-> <<>>, thought |-> <<>>, documentation |-> <<>>]

ReflectDict(decision, thought, documentation) ==
    [is_none |-> FALSE, decision |-> decision, thought |-> thought,
     documentation |-> documentation]

parse_reflection_response(text) ==
    LET decision == ExtractSection(text, DECISION_MARK, THOUGHT_MARK)
        thought == ExtractSection(text, THOUGHT_MARK, DOCUMENTATION_MARK)
        documentation == ExtractSection(text, DOCUMENTATION_MARK, "")
    IN IF decision = <<>> \/ thought = <<>> THEN ReflectNone
       ELSE ReflectDict(ReturnedDecision(decision), thought,
                        OrDefault(documentation, <<DOC_NA>>))

\* Navigator._reflect_and_document: device operations and the
\* documentation map after the pass
ReflectOpsAnyVerdict(success, verdict) ==
    IF success /\ verdict # NoVerdict THEN <<DevOp("back", 0, "")>> ELSE <<>>
ReflectOps(success, verdict) ==
    IF success /\ verdict # NoVerdict /\ verdict.decision = "BACK"
    THEN <<DevOp("back", 0, "")>> ELSE <<>>

\* the decision the pass acts on ("" when the call or the parse failed)
ReflectDecision(success, verdict) ==
    IF success /\ verdict # NoVerdict THEN verdict.decision ELSE ""

ReflectWritesIneffective(success, verdict, uid) ==
    /\ success
    /\ verdict # NoVerdict
    /\ verdict.documentation # DOC_NA
    /\ uid # ""

ReflectWrites(success, verdict, uid) ==
    /\ success
    /\ verdict # NoVerdict
    /\ verdict.documentation # DOC_NA
    /\ uid # ""
    /\ verdict.decision # "INEFFECTIVE"

ReflectDocsFresh(d, success, verdict, uid) ==
    IF ReflectWrites(success, verdict, uid)
    THEN [u \in DOMAIN d |-> IF u = uid THEN verdict.documentation ELSE ""]
    ELSE d

ReflectDocs(d, success, verdict, uid) ==
    IF ReflectWrites(success, verdict, uid)
    THEN [d EXCEPT ![uid] = verdict.documentation]
    ELSE d

(* ------------------------ prompts and modules ------------------------- *)
\* replacement fields of the prompt templates (prompt_library.py)
TemplateFields(template) ==
    CASE template = "TASK_EXECUTION_PROMPT" ->
           {"task_description", "sub_goal_list", "current_sub_goal",
            "element_list", "last_action_summary"}
      [] template = "APP_EXPLORATION_PROMPT" ->
           {"exploration_directive", "ui_documentation", "last_action_summary"}
      [] template = "TASK_EXECUTION_GRID_PROMPT" ->
           {"task_description", "last_action_summary"}

\* keyword arguments of the two format calls in run
LabeledFormatArgs ==
    {"task_description", "sub_goal_list", "current_sub_goal", "element_list",
     "ui_documentation", "last_action_summary"}

GridFormatArgs == {"current_sub_goal", "last_action_summary"}

\* str.format raises KeyError when a field has no argument
FormatOk(template, args) == TemplateFields(template) \subseteq args

LabeledTemplate(mode) ==
    IF mode = "explore" THEN "APP_EXPLORATION_PROMPT" ELSE "TASK_EXECUTION_PROMPT"

\* the functions the modules called in grid mode define
ImageUtilsFunctions == {"_add_text_background", "label_ui_elements", "encode_image_to_base64"}
ResponseParserFunctions ==
    {"_extract_section", "parse_reflection_response",
     "parse_action_with_plan_response", "parse_action_response"}

\* the grid branch of a round (navigator.py:252-261) runs without an
\* AttributeError or KeyError only if both functions exist and the
\* prompt formats
GridBranchRuns ==
    /\ "draw_grid" \in ImageUtilsFunctions
    /\ FormatOk("TASK_EXECUTION_GRID_PROMPT", GridFormatArgs)
    /\ "parse_grid_response" \in ResponseParserFunctions

LabeledBranchRuns(mode) == FormatOk(LabeledTemplate(mode), LabeledFormatArgs)

(* ------------------------------- state -------------------------------- *)
VARIABLES
    agent_mode,               \* argument of run: "task" or "explore"
    max_rounds,               \* settings: agent.max_<mode>_rounds
    pc,                       \* position of run
    round_count,
    last_action_summary,
    task_complete,
    sub_goals,
    current_sub_goal_index,
    grid_mode,
    interactive_elements,
    attempt,                  \* initial-load attempts made so far
    initial_screenshot_path,
    initial_xml_path,
    screenshot_path,
    xml_path,
    parsed_action,
    interacted_uid,
    docs,                     \* knowledge base: uid -> text ("" = no file)
    screenshot_dir,           \* TRUE while the session directory exists
    xml_dir,
    exit_kind,                \* how run left its body
    cleanup_log,              \* removals attempted by the finally block
    decomposition,            \* branch the decomposition took ("none" before)
    round_obs,                \* what the current round has done so far
    response,                 \* argument of parse_action_response
    parse_pc,                 \* "idle", "input" (called) or "done" (returned)
    parse_result,             \* value parse_action_response returned
    snapshot,                 \* UI dump given to extract_interactive_elements
    min_element_dist,         \* settings: device.min_element_dist
    extractions,              \* what each call on the snapshot returned
    apk_exists,               \* install_apk: os.path.exists(apk_path)
    retries,                  \* install_apk: its retries argument
    install_pc,               \* "idle", "called", "loop" or "returned"
    install_attempt,          \* the loop variable of install_apk
    install_log,              \* install commands run and sleeps taken
    install_result            \* value install_apk returned

vars ==
    <<agent_mode, max_rounds, pc, round_count, last_action_summary,
      task_complete, sub_goals, current_sub_goal_index, grid_mode,
      interactive_elements, attempt, initial_screenshot_path,
      initial_xml_path, screenshot_path, xml_path, parsed_action,
      interacted_uid, docs, screenshot_dir, xml_dir, exit_kind,
      cleanup_log, decomposition, round_obs, response, parse_pc, parse_result,
      snapshot, min_element_dist, extractions, apk_exists, retries,
      install_pc, install_attempt, install_log, install_result>>

\* positions inside the try block of run
TryPcs == {"initial_load", "loop", "think", "act", "reflect", "continue"}
Paths == {ERROR, PATH}

NoRound ==
    [kind |-> "none", vlm |-> 0, ops |-> <<>>, reflected |-> FALSE,
     capture_error |-> FALSE, pre_round |-> 0, pre_index |-> 0,
     pre_grid |-> FALSE, decision |-> "", after_shot |-> FALSE]

\* the knowledge base outlives a session: one element is documented
\* already, the others are not
InitialDocs == [u \in UIDSet |-> IF u = UIDNames[1] THEN "d0" ELSE ""]

\* no call of parse_action_response is being followed
ParserIdle ==
    /\ response = <<>>
    /\ parse_pc = "idle"
    /\ parse_result = ParseNone

\* no call of extract_interactive_elements is being followed
ExtractorIdle ==
    /\ snapshot = Snapshot("", TRUE, "flat", <<>>)
    /\ min_element_dist = 20
    /\ extractions = <<>>

\* no call of install_apk is being followed
InstallerIdle ==
    /\ apk_exists = FALSE
    /\ retries = DEFAULT_RETRIES
    /\ install_pc = "idle"
    /\ install_attempt = 0
    /\ install_log = <<>>
    /\ install_result = "none"

\* Navigator.__init__
InitComplete ==
    /\ agent_mode \in {"task", "explore"}
    /\ max_rounds \in 0..MaxRoundsBound
    /\ pc = "start"
    /\ round_count = 0
    /\ last_action_summary = SUMMARY_INIT
    /\ task_complete = TRUE
    /\ sub_goals = <<>>
    /\ current_sub_goal_index = 0
    /\ grid_mode = FALSE
    /\ interactive_elements = <<>>
    /\ attempt = 0
    /\ initial_screenshot_path = ""
    /\ initial_xml_path = ""
    /\ screenshot_path = ""
    /\ xml_path = ""
    /\ parsed_action = None
    /\ interacted_uid = ""
    /\ docs = InitialDocs
    /\ screenshot_dir = TRUE
    /\ xml_dir = TRUE
    /\ exit_kind = "none"
    /\ cleanup_log = <<>>
    /\ decomposition = "none"
    /\ round_obs = NoRound
    /\ ParserIdle
    /\ ExtractorIdle
    /\ InstallerIdle

Init ==
    /\ agent_mode \in {"task", "explore"}
    /\ max_rounds \in 0..MaxRoundsBound
    /\ pc = "start"
    /\ round_count = 0
    /\ last_action_summary = SUMMARY_INIT
    /\ task_complete = FALSE
    /\ sub_goals = <<>>
    /\ current_sub_goal_index = 0
    /\ grid_mode = FALSE
    /\ interactive_elements = <<>>
    /\ attempt = 0
    /\ initial_screenshot_path = ""
    /\ initial_xml_path = ""
    /\ screenshot_path = ""
    /\ xml_path = ""
    /\ parsed_action = None
    /\ interacted_uid = ""
    /\ docs = InitialDocs
    /\ screenshot_dir = TRUE
    /\ xml_dir = TRUE
    /\ exit_kind = "none"
    /\ cleanup_log = <<>>
    /\ decomposition = "none"
    /\ round_obs = NoRound
    /\ ParserIdle
    /\ ExtractorIdle
    /\ InstallerIdle

LoopVars ==
    <<round_count, last_action_summary, task_complete, current_sub_goal_index,
      grid_mode, parsed_action, interacted_uid, docs, round_obs>>
CaptureVars ==
    <<interactive_elements, attempt, initial_screenshot_path, initial_xml_path,
      screenshot_path, xml_path>>
DirVars == <<screenshot_dir, xml_dir, cleanup_log>>
ConfigVars == <<agent_mode, max_rounds>>
PlanVars == <<sub_goals, decomposition>>
ParserVars == <<response, parse_pc, parse_result>>
ExtractorVars == <<snapshot, min_element_dist, extractions>>
InstallerVars ==
    <<apk_exists, retries, install_pc, install_attempt, install_log, install_result>>
NavigatorVars ==
    <<ConfigVars, LoopVars, CaptureVars, DirVars, PlanVars, pc, exit_kind>>

(* ---------------- run: decomposition (lines 185-196) ------------------ *)
\* task mode: decompose, abort on an empty plan (before the try block)
StartTask ==
    /\ pc = "start"
    /\ agent_mode = "task"
    /\ \E success \in BOOLEAN, text \in ResponseTexts :
         LET plan == DecomposePlan(success, text, task_desc)
         IN /\ sub_goals' = plan
            /\ decomposition' = DecompositionKind(success, text)
            /\ IF PlanMissing(plan)
               THEN pc' = "returned" /\ exit_kind' = "no_plan"
               ELSE pc' = "initial_load" /\ exit_kind' = exit_kind
    /\ UNCHANGED <<ParserVars, ExtractorVars, InstallerVars, ConfigVars, LoopVars, CaptureVars, DirVars>>

StartExplore ==
    /\ pc = "start"
    /\ agent_mode = "explore"
    /\ pc' = "initial_load"
    /\ UNCHANGED <<ParserVars, ExtractorVars, InstallerVars, ConfigVars, LoopVars, CaptureVars, DirVars, PlanVars, exit_kind>>

(* ---------------- run: initial UI load (lines 199-219) ---------------- *)
\* extract_interactive_elements returns [] for an "ERROR" path
Extracted(path, elems) == IF path = ERROR THEN <<>> ELSE elems

\* the for loop gives up when its range is used up (the else clause)
LoadExhaustedLate(n) == n > initial_load_attempts
LoadExhausted(n) == n >= initial_load_attempts

InitialLoadAttempt ==
    /\ pc = "initial_load"
    /\ ~LoadExhausted(attempt)
    /\ \E shot \in Paths, xml \in Paths, elems \in ElementLists :
         LET found == IF xml # ERROR THEN Extracted(xml, elems) ELSE interactive_elements
         IN /\ initial_screenshot_path' = shot
            /\ initial_xml_path' = xml
            /\ interactive_elements' = found
            /\ attempt' = attempt + 1
            /\ IF xml # ERROR /\ found # <<>>
               THEN pc' = "loop" /\ exit_kind' = exit_kind
               ELSE IF LoadExhausted(attempt + 1)
                    THEN pc' = "finally" /\ exit_kind' = "no_elements"
                    ELSE pc' = "initial_load" /\ exit_kind' = exit_kind
    /\ UNCHANGED <<ParserVars, ExtractorVars, InstallerVars, ConfigVars, LoopVars, DirVars, PlanVars, screenshot_path, xml_path>>

(* ------------------- run: round loop (lines 222-323) ------------------ *)
LoopConditionOffByOne(rc, mr, tc) == rc <= mr /\ ~tc
LoopCondition(rc, mr, tc) == rc < mr /\ ~tc

NextRoundStuck(rc) == rc
NextRound(rc) == rc + 1

\* lines 235: the fresh capture of a round failed
CaptureFailed(shot, xml) == shot = ERROR \/ xml = ERROR

\* lines 222-238: loop test, counter, capture
RoundBegin ==
    /\ pc = "loop"
    /\ LoopCondition(round_count, max_rounds, task_complete)
    /\ round_count' = NextRound(round_count)
    /\ LET obs == [NoRound EXCEPT !.kind = "begun",
                                  !.pre_round = round_count,
                                  !.pre_index = current_sub_goal_index,
                                  !.pre_grid = grid_mode]
       IN IF round_count' = 1
          THEN /\ screenshot_path' = initial_screenshot_path
               /\ xml_path' = initial_xml_path
               /\ interactive_elements' = interactive_elements
               /\ round_obs' = [obs EXCEPT !.capture_error =
                                   CaptureFailed(initial_screenshot_path, initial_xml_path)]
               /\ pc' = "think"
          ELSE \E shot \in Paths, xml \in Paths, elems \in ElementLists :
                 /\ screenshot_path' = shot
                 /\ xml_path' = xml
                 /\ IF CaptureFailed(shot, xml)
                    THEN /\ interactive_elements' = interactive_elements
                         /\ round_obs' = [obs EXCEPT !.kind = "skipped",
                                                     !.capture_error = TRUE]
                         /\ pc' = "continue"
                    ELSE /\ interactive_elements' = Extracted(xml, elems)
                         /\ round_obs' = obs
                         /\ pc' = "think"
    /\ UNCHANGED <<ParserVars, ExtractorVars, InstallerVars, ConfigVars, DirVars, PlanVars, last_action_summary, task_complete,
                   current_sub_goal_index, grid_mode, parsed_action, interacted_uid,
                   docs, attempt, initial_screenshot_path, initial_xml_path, exit_kind>>

\* line 222: the loop test fails; control falls to the finally block
LoopExit ==
    /\ pc = "loop"
    /\ ~LoopCondition(round_count, max_rounds, task_complete)
    /\ pc' = "finally"
    /\ exit_kind' = IF task_complete THEN "complete" ELSE "exhausted"
    /\ UNCHANGED <<ParserVars, ExtractorVars, InstallerVars, ConfigVars, LoopVars, CaptureVars, DirVars, PlanVars>>

\* line 243: every sub-goal of the plan is done
AllSubGoalsDoneLate(mode, idx, plan) == mode = "task" /\ idx > Len(plan)
AllSubGoalsDone(mode, idx, plan) == mode = "task" /\ idx >= Len(plan)

\* lines 261/282: the parse result is used only if the model call succeeded
ParsedRegardless(success, parsed) == parsed
ParsedOrNone(success, parsed) == IF success THEN parsed ELSE None

\* lines 240-282: sub-goal management, prompt, model call, parse
Think ==
    /\ pc = "think"
    /\ IF AllSubGoalsDone(agent_mode, current_sub_goal_index, sub_goals)
       THEN /\ task_complete' = TRUE
            /\ pc' = "finally"
            /\ exit_kind' = "complete"
            /\ round_obs' = [round_obs EXCEPT !.kind = "all_done"]
            /\ UNCHANGED parsed_action
       ELSE IF (grid_mode /\ ~GridBranchRuns) \/ (~grid_mode /\ ~LabeledBranchRuns(agent_mode))
       THEN /\ pc' = "finally"
            /\ exit_kind' = "fault"
            /\ round_obs' = [round_obs EXCEPT !.kind = "fault"]
            /\ UNCHANGED <<task_complete, parsed_action>>
       ELSE \E success \in BOOLEAN, parsed \in ParseResults :
            /\ parsed_action' = ParsedOrNone(success, parsed)
            /\ round_obs' = [round_obs EXCEPT
                               !.vlm = @ + 1,
                               !.kind = IF ~success THEN "model_fail"
                                        ELSE IF parsed = None THEN "parse_fail"
                                        ELSE "parsed"]
            /\ pc' = "act"
            /\ UNCHANGED <<task_complete, exit_kind>>
    /\ UNCHANGED <<ParserVars, ExtractorVars, InstallerVars, ConfigVars, CaptureVars, DirVars, PlanVars, round_count,
                   last_action_summary, current_sub_goal_index, grid_mode,
                   interacted_uid, docs>>

\* line 300
AdvanceSubGoalByTwo(idx) == idx + 2
AdvanceSubGoal(idx) == idx + 1

\* line 298
SubGoalCompleteNever(name) == FALSE
SubGoalComplete(name) == name = "subgoal_complete"

\* lines 284-314: summary, meta-actions, dispatch
Act ==
    /\ pc = "act"
    /\ IF parsed_action = None
       THEN /\ last_action_summary' = SUMMARY_PARSE_FAIL
            /\ pc' = "continue"
            /\ UNCHANGED <<task_complete, current_sub_goal_index, grid_mode,
                           interacted_uid, exit_kind, round_obs>>
       ELSE /\ last_action_summary' = parsed_action.summary
            /\ IF parsed_action.action_name = "finish"
               THEN /\ task_complete' = TRUE
                    /\ pc' = "finally"
                    /\ exit_kind' = "complete"
                    /\ round_obs' = [round_obs EXCEPT !.kind = "finish"]
                    /\ UNCHANGED <<current_sub_goal_index, grid_mode, interacted_uid>>
               ELSE IF SubGoalComplete(parsed_action.action_name)
               THEN /\ current_sub_goal_index' = AdvanceSubGoal(current_sub_goal_index)
                    /\ pc' = "continue"
                    /\ round_obs' = [round_obs EXCEPT !.kind = "subgoal_complete"]
                    /\ UNCHANGED <<task_complete, grid_mode, interacted_uid, exit_kind>>
               ELSE IF grid_mode
               THEN /\ grid_mode' = FALSE
                    /\ interacted_uid' = ""
                    /\ pc' = "reflect"
                    /\ round_obs' = [round_obs EXCEPT !.kind = "grid_action"]
                    /\ UNCHANGED <<task_complete, current_sub_goal_index, exit_kind>>
               ELSE IF parsed_action.action_name = "grid"
               THEN /\ grid_mode' = TRUE
                    /\ pc' = "continue"
                    /\ round_obs' = [round_obs EXCEPT !.kind = "grid"]
                    /\ UNCHANGED <<task_complete, current_sub_goal_index,
                                   interacted_uid, exit_kind>>
               ELSE LET r == ExecuteAction(parsed_action.action_name,
                                           parsed_action.action_params,
                                           interactive_elements)
                    IN /\ task_complete' = (task_complete \/ r.finish)
                       /\ IF r.fault
                          THEN /\ pc' = "finally"
                               /\ exit_kind' = "fault"
                               /\ interacted_uid' = ""
                               /\ round_obs' = [round_obs EXCEPT !.kind = "fault"]
                          ELSE /\ pc' = "reflect"
                               /\ exit_kind' = exit_kind
                               /\ interacted_uid' = r.uid
                               /\ round_obs' = [round_obs EXCEPT !.kind = "dispatched",
                                                                 !.ops = @ \o r.ops]
                       /\ UNCHANGED <<current_sub_goal_index, grid_mode>>
    /\ UNCHANGED <<ParserVars, ExtractorVars, InstallerVars, ConfigVars, CaptureVars, DirVars, PlanVars, round_count,
                   parsed_action, docs>>

\* lines 316-323: settle delay, after-capture, reflection pass
Reflect ==
    /\ pc = "reflect"
    /\ pc' = "continue"
    /\ IF parsed_action.action_name \in NoReflectActions
       THEN UNCHANGED <<docs, round_obs>>
       ELSE \E after \in Paths, success \in BOOLEAN, verdict \in {NoVerdict} \cup Verdicts :
              IF after = ERROR
              THEN /\ round_obs' = [round_obs EXCEPT !.after_shot = TRUE]
                   /\ UNCHANGED docs
              ELSE /\ docs' = ReflectDocs(docs, success, verdict, interacted_uid)
                   /\ round_obs' = [round_obs EXCEPT
                                      !.after_shot = TRUE,
                                      !.reflected = TRUE,
                                      !.vlm = @ + 1,
                                      !.decision = ReflectDecision(success, verdict),
                                      !.ops = @ \o ReflectOps(success, verdict)]
    /\ UNCHANGED <<ParserVars, ExtractorVars, InstallerVars, ConfigVars, CaptureVars, DirVars, PlanVars, round_count,
                   last_action_summary, task_complete, current_sub_goal_index,
                   grid_mode, parsed_action, interacted_uid, exit_kind>>

\* a `continue` or the end of the loop body: back to the loop test.  The
\* locals of the finished iteration (and, from round 1 on, those of the
\* initial load) are dead here: each is assigned again before its next use
\* (lines 228-238, 261/282, 304), so they are cleared.
Continue ==
    /\ pc = "continue"
    /\ pc' = "loop"
    /\ parsed_action' = None
    /\ interacted_uid' = ""
    /\ screenshot_path' = ""
    /\ xml_path' = ""
    /\ attempt' = 0
    /\ initial_screenshot_path' = ""
    /\ initial_xml_path' = ""
    /\ round_obs' = NoRound
    /\ UNCHANGED <<ParserVars, ExtractorVars, InstallerVars, ConfigVars, DirVars, PlanVars, round_count, last_action_summary,
                   task_complete, current_sub_goal_index, grid_mode, docs,
                   interactive_elements, exit_kind>>

(* ------------------- run: interrupt and cleanup ----------------------- *)
\* KeyboardInterrupt inside the try block (lines 325-327)
Interrupt ==
    /\ pc \in TryPcs
    /\ pc' = "finally"
    /\ exit_kind' = "interrupt"
    /\ UNCHANGED <<ParserVars, ExtractorVars, InstallerVars, ConfigVars, LoopVars, CaptureVars, DirVars, PlanVars>>

\* KeyboardInterrupt before the try block is entered (lines 185-196)
InterruptBeforeTry ==
    /\ pc = "start"
    /\ pc' = "returned"
    /\ exit_kind' = "interrupt"
    /\ UNCHANGED <<ParserVars, ExtractorVars, InstallerVars, ConfigVars, LoopVars, CaptureVars, DirVars, PlanVars>>

\* lines 329-335: one try around both removals
Cleanup ==
    /\ pc = "finally"
    /\ pc' = "returned"
    /\ \E shot_fails \in BOOLEAN, xml_fails \in BOOLEAN :
         /\ screenshot_dir' = (screenshot_dir /\ shot_fails)
         /\ IF screenshot_dir /\ shot_fails
            THEN /\ xml_dir' = xml_dir
                 /\ cleanup_log' = <<"screenshots">>
            ELSE /\ xml_dir' = (xml_dir /\ xml_fails)
                 /\ cleanup_log' = <<"screenshots", "xmls">>
    /\ UNCHANGED <<ParserVars, ExtractorVars, InstallerVars, ConfigVars, LoopVars, CaptureVars, PlanVars, exit_kind>>

\* line 327: the bare `raise` of the KeyboardInterrupt clause hands the
\* caught exception on
Swallowed(exc) == "none"
Reraise(exc) == exc

\* the exception the try statement of run leaves to the caller of run
\* once its finally block is done ("none": run returns normally)
PropagatedFromTry ==
    IF exit_kind = "interrupt" THEN Reraise("KeyboardInterrupt")
    ELSE IF exit_kind = "fault" THEN "Exception"
    ELSE "none"

Next ==
    \/ StartTask
    \/ StartExplore
    \/ InitialLoadAttempt
    \/ RoundBegin
    \/ LoopExit
    \/ Think
    \/ Act
    \/ Reflect
    \/ Continue
    \/ Interrupt
    \/ InterruptBeforeTry
    \/ Cleanup

Spec == Init /\ [][Next]_vars

\* the run is sequential code: whenever a step is possible, one is taken
FairSpec == Spec /\ WF_vars(Next)

(* ----------------- parse_action_response on its own ------------------- *)
\* no Navigator is running
NavigatorIdle ==
    /\ agent_mode = "task"
    /\ max_rounds = 0
    /\ pc = "idle"
    /\ round_count = 0
    /\ last_action_summary = SUMMARY_INIT
    /\ task_complete = FALSE
    /\ sub_goals = <<>>
    /\ current_sub_goal_index = 0
    /\ grid_mode = FALSE
    /\ interactive_elements = <<>>
    /\ attempt = 0
    /\ initial_screenshot_path = ""
    /\ initial_xml_path = ""
    /\ screenshot_path = ""
    /\ xml_path = ""
    /\ parsed_action = None
    /\ interacted_uid = ""
    /\ docs = InitialDocs
    /\ screenshot_dir = TRUE
    /\ xml_dir = TRUE
    /\ exit_kind = "none"
    /\ cleanup_log = <<>>
    /\ decomposition = "none"
    /\ round_obs = NoRound

\* the function is called with any text
ParserInit ==
    /\ NavigatorIdle
    /\ \E n \in 0..MaxTextLen : \E t \in [1..n -> ParseChars] :
          response \in WithMarker(t)
    /\ parse_pc = "input"
    /\ parse_result = ParseNone
    /\ ExtractorIdle
    /\ InstallerIdle

\* one call of parse_action_response
ParseActionResponse ==
    /\ parse_pc = "input"
    /\ parse_pc' = "done"
    /\ parse_result' = parse_action_response(response)
    /\ UNCHANGED <<response, NavigatorVars, ExtractorVars, InstallerVars>>

ParserNext == ParseActionResponse

ParserSpec == ParserInit /\ [][ParserNext]_vars

(* ---------------- parse_reflection_response on its own ---------------- *)
WithDecision(t) == {t, <<DECISION_MARK>> \o t}

\* the function is called with any text
ReflectionInit ==
    /\ NavigatorIdle
    /\ \E n \in 0..MaxTextLen : \E t \in [1..n -> ReflectChars] :
          response \in WithDecision(t)
    /\ parse_pc = "input"
    /\ parse_result = ReflectNone
    /\ ExtractorIdle
    /\ InstallerIdle

\* one call of parse_reflection_response
ParseReflectionResponse ==
    /\ parse_pc = "input"
    /\ parse_pc' = "done"
    /\ parse_result' = parse_reflection_response(response)
    /\ UNCHANGED <<response, NavigatorVars, ExtractorVars, InstallerVars>>

ReflectionNext == ParseReflectionResponse

ReflectionSpec == ReflectionInit /\ [][ReflectionNext]_vars

(* ------------- parse_action_response on action lines ----------------- *)
\* The arguments action lines are built from, each with the token that is
\* left after the `label:` prefix and the surrounding quotes and spaces are
\* removed, and that token's value as a decimal number (0 when it is not
\* one).
ArgForm(text, token, n) == [text |-> text, token |-> token, n |-> n]

ArgForms ==
    {ArgForm(<<"1">>, <<"1">>, 1),
     ArgForm(<<"1", "1">>, <<"1", "1">>, 11),
     ArgForm(<<"a">>, <<"a">>, 0),
     ArgForm(<<"a", ":", " ", "1">>, <<"1">>, 1),
     ArgForm(<<"'", "1", "'">>, <<"1">>, 1),
     ArgForm(<<" ", "a", "1", " ">>, <<"a", "1">>, 0),
     ArgForm(<<"sup2">>, <<"sup2">>, 0),
     ArgForm(<<>>, <<>>, 0)}

\* the action names of the lines: a word with a capital, and type_text
CallNames == {<<"T", "a">>, <<TYPE_TEXT>>}

\* the text "a1,a2,...": the arguments joined by commas
RECURSIVE JoinArgs(_)
JoinArgs(args) ==
    IF Len(args) = 0 THEN <<>>
    ELSE IF Len(args) = 1 THEN args[1].text
    ELSE args[1].text \o <<",">> \o JoinArgs(Tail(args))

\* the response "Action: name(a1,a2,...)"
CallText(name, args) == <<ACTION_MARK>> \o name \o <<"(">> \o JoinArgs(args) \o <<")">>

\* the function is called with an action line of the form name(args)
ArgumentInit ==
    /\ NavigatorIdle
    /\ ExtractorIdle
    /\ InstallerIdle
    /\ \E name \in CallNames : \E n \in 1..MaxArgs : \E args \in [1..n -> ArgForms] :
          response = CallText(name, args)
    /\ parse_pc = "input"
    /\ parse_result = ParseNone

ArgumentSpec == ArgumentInit /\ [][ParserNext]_vars

(* -------------- extract_interactive_elements on its own --------------- *)
\* the function is called on any snapshot: an empty or "ERROR" path, a
\* file that is not well-formed, or a tree of up to MaxNodes nodes
ExtractorInit ==
    /\ NavigatorIdle
    /\ ParserIdle
    /\ InstallerIdle
    /\ min_element_dist \in MinDists
    /\ \/ snapshot \in {Snapshot("", TRUE, "flat", <<>>), Snapshot(ERROR, TRUE, "flat", <<>>),
                        Snapshot(PATH, FALSE, "flat", <<>>)}
       \/ \E n \in 1..MaxNodes : \E shape \in TreeShapes : \E nodes \in [1..n -> NodeKinds] :
             snapshot = Snapshot(PATH, TRUE, shape, nodes)
    /\ extractions = <<>>

\* one call of extract_interactive_elements
ExtractInteractiveElements ==
    /\ Len(extractions) < MaxRuns
    /\ extractions' =
         Append(extractions,
                extract_interactive_elements(snapshot, min_element_dist, extractions))
    /\ UNCHANGED <<snapshot, min_element_dist, NavigatorVars, ParserVars, InstallerVars>>

ExtractorNext == ExtractInteractiveElements

ExtractorSpec == ExtractorInit /\ [][ExtractorNext]_vars

(* ------------------------ install_apk on its own ---------------------- *)
\* entries of install_log: an `adb install` command with what
\* execute_adb_command returned for it (its success flag, and whether the
\* output contains "Success"), or a sleep of delay_sec
InstallCommand(success, output_ok) ==
    [kind |-> "install", success |-> success, output_ok |-> output_ok]
Sleep == [kind |-> "sleep", success |-> FALSE, output_ok |-> FALSE]

\* line 44
Installed(success, output_ok) == success /\ output_ok

\* line 49
RetryFollowsAlways(i, n) == TRUE
RetryFollows(i, n) == i < n - 1

\* install_apk is called with any path and any number of retries
InstallerInit ==
    /\ NavigatorIdle
    /\ ParserIdle
    /\ ExtractorIdle
    /\ apk_exists \in BOOLEAN
    /\ retries \in 0..MaxRetries
    /\ install_pc = "called"
    /\ install_attempt = 0
    /\ install_log = <<>>
    /\ install_result = "none"

\* lines 35-37
InstallCheckPath ==
    /\ install_pc = "called"
    /\ IF apk_exists
       THEN install_pc' = "loop" /\ install_result' = install_result
       ELSE install_pc' = "returned" /\ install_result' = "False"
    /\ UNCHANGED <<apk_exists, retries, install_attempt, install_log,
                   NavigatorVars, ParserVars, ExtractorVars>>

\* lines 39-51: one iteration of the loop
InstallAttempt ==
    /\ install_pc = "loop"
    /\ install_attempt < retries
    /\ \E success \in BOOLEAN, output_ok \in BOOLEAN :
          IF Installed(success, output_ok)
          THEN /\ install_log' = Append(install_log, InstallCommand(success, output_ok))
               /\ install_pc' = "returned"
               /\ install_result' = "True"
               /\ install_attempt' = install_attempt
          ELSE /\ install_log' =
                    install_log \o <<InstallCommand(success, output_ok)>>
                        \o (IF RetryFollows(install_attempt, retries)
                            THEN <<Sleep>> ELSE <<>>)
               /\ install_attempt' = install_attempt + 1
               /\ UNCHANGED <<install_pc, install_result>>
    /\ UNCHANGED <<apk_exists, retries, NavigatorVars, ParserVars, ExtractorVars>>

\* lines 53-54: the loop ran out
InstallGiveUp ==
    /\ install_pc = "loop"
    /\ install_attempt >= retries
    /\ install_pc' = "returned"
    /\ install_result' = "False"
    /\ UNCHANGED <<apk_exists, retries, install_attempt, install_log,
                   NavigatorVars, ParserVars, ExtractorVars>>

InstallerNext == InstallCheckPath \/ InstallAttempt \/ InstallGiveUp

InstallerSpec == InstallerInit /\ [][InstallerNext]_vars

TypeOK ==
    /\ pc \in {"start", "returned", "finally"} \cup TryPcs
    /\ round_count \in 0..(MaxRoundsBound + 1)
    /\ task_complete \in BOOLEAN
    /\ grid_mode \in BOOLEAN
    /\ attempt \in 0..initial_load_attempts

(* ============================ properties ============================== *)
InLoop == pc \in {"loop", "think", "act", "reflect", "continue"}
Returned == pc = "returned"
FailedRound == round_obs.kind \in {"model_fail", "parse_fail"}

\* C1: the round counter changes only when an iteration of the round loop
\* starts, it then grows by exactly one, every started iteration counts
\* (skipped, unparsed and meta-action rounds too), and the counter never
\* exceeds max_rounds.
RoundBudgetRespected ==
    [][/\ round_count' <= max_rounds
       /\ round_count' \in {round_count, round_count + 1}
       /\ (round_count' # round_count => pc = "loop" /\ pc' \in {"think", "continue"})
       /\ (pc = "loop" /\ pc' \in {"think", "continue"} => round_count' = round_count + 1)
      ]_vars

\* a skipped round used up the last unit of a budget of at least two
RoundBudgetWitness ==
    /\ max_rounds >= 2
    /\ round_count = max_rounds
    /\ pc = "continue"
    /\ round_obs.kind = "skipped"

\* C2: every run ends: it returns to its caller with the task complete,
\* the round budget exhausted, or aborted (no plan, no elements,
\* interrupt, fault).
RunTerminates ==
    <>(/\ Returned
       /\ exit_kind \in {"complete", "exhausted", "no_plan", "no_elements",
                         "interrupt", "fault"})

\* a run that spent its whole budget of at least two rounds on rounds that
\* changed nothing, and returned
RunTerminatesWitness ==
    /\ Returned
    /\ exit_kind = "exhausted"
    /\ max_rounds >= 2
    /\ round_count = max_rounds
    /\ current_sub_goal_index = 0
    /\ last_action_summary = SUMMARY_PARSE_FAIL

\* C3: whenever run has returned, the cleanup of the session directories
\* has been executed.
CleanupOnEveryExit == Returned => cleanup_log # <<>>

\* C4: the sub-goal index never decreases and stays within
\* 0 .. len(plan), in both modes.
SubGoalIndexInRange ==
    [][/\ current_sub_goal_index' >= current_sub_goal_index
       /\ current_sub_goal_index' >= 0
       /\ current_sub_goal_index' <= Len(sub_goals')
      ]_vars

\* the last of two sub-goals has just been marked complete
SubGoalIndexWitness ==
    /\ agent_mode = "task"
    /\ Len(sub_goals) = 2
    /\ current_sub_goal_index = 2
    /\ round_obs.kind = "subgoal_complete"
    /\ pc = "continue"

\* C5: in task mode, when the round loop has been left with every
\* sub-goal marked complete, the task-complete flag is set.
AllDoneMeansComplete ==
    (/\ agent_mode = "task"
     /\ pc \in {"finally", "returned"}
     /\ exit_kind \in {"complete", "exhausted"}
     /\ current_sub_goal_index = Len(sub_goals))
    => task_complete

\* C6: in task mode neither the initial load nor the round loop is ever
\* reached with an empty plan.
NoEmptyPlanInLoop ==
    (agent_mode = "task" /\ (pc = "initial_load" \/ InLoop)) => sub_goals # <<>>

\* the model answered with an empty list and the run returned before the
\* initial load
NoEmptyPlanWitness ==
    /\ agent_mode = "task"
    /\ decomposition = "list"
    /\ sub_goals = <<>>
    /\ Returned
    /\ attempt = 0
    /\ round_count = 0

\* C7 as stated: a failed decomposition leaves the one-element plan holding
\* the task description, the index at 0 and the run going, and after
\* decomposition the plan is never empty.
FallbackPlanNeverEmpty ==
    decomposition # "none" =>
        /\ (decomposition \in FailureKinds =>
               /\ sub_goals = <<task_desc>>
               /\ exit_kind # "no_plan"
               /\ (round_count = 0 => current_sub_goal_index = 0))
        /\ sub_goals # <<>>

\* C7 as amended: the same for a failed decomposition; the plan is empty
\* after decomposition only if the response evaluated to an empty list,
\* and then the run has aborted before the initial load.
FallbackPlanOnFailure ==
    decomposition # "none" =>
        /\ (decomposition \in FailureKinds =>
               /\ sub_goals = <<task_desc>>
               /\ exit_kind # "no_plan"
               /\ (round_count = 0 => current_sub_goal_index = 0))
        /\ (sub_goals = <<>> =>
               /\ decomposition = "list"
               /\ exit_kind = "no_plan"
               /\ Returned)

\* the bracketed text could not be evaluated and the run went on to the
\* initial load with the fallback plan
FallbackPlanWitness ==
    /\ decomposition = "bad_literal"
    /\ sub_goals = <<task_desc>>
    /\ pc = "initial_load"
    /\ current_sub_goal_index = 0

\* C8: at most 5 initial attempts, no further attempt after one that found
\* an element; when all 5 find none the run aborts before any round, model
\* call or device operation; the round loop starts with a non-empty list.
InitialLoadBounded ==
    /\ attempt <= initial_load_attempts
    /\ (pc = "initial_load" =>
           attempt < initial_load_attempts /\ interactive_elements = <<>>)
    /\ (exit_kind = "no_elements" =>
           /\ attempt = initial_load_attempts
           /\ interactive_elements = <<>>
           /\ round_count = 0
           /\ round_obs = NoRound
           /\ pc \in {"finally", "returned"})
    /\ (InLoop /\ round_count = 0 => interactive_elements # <<>>)

\* five attempts found nothing and the run has returned
InitialLoadWitness ==
    /\ exit_kind = "no_elements"
    /\ attempt = initial_load_attempts
    /\ Returned

\* C9: a round whose model call failed and a round whose response did not
\* parse end alike: no device operation, no reflection, one model call,
\* the counter one higher, index, grid flag and completion flag as before,
\* and the parse-failure summary recorded.
FailedRoundFrame ==
    FailedRound =>
        /\ round_obs.ops = <<>>
        /\ ~round_obs.reflected
        /\ round_obs.vlm = 1
        /\ parsed_action = None
        /\ round_count = round_obs.pre_round + 1
        /\ current_sub_goal_index = round_obs.pre_index
        /\ grid_mode = round_obs.pre_grid
        /\ ~task_complete
        /\ (pc = "continue" => last_action_summary = SUMMARY_PARSE_FAIL)
        /\ pc \in {"act", "continue", "finally", "returned"}
        /\ (pc \in {"finally", "returned"} => exit_kind = "interrupt")

\* the model call failed in a round that began with one sub-goal done
FailedRoundWitness ==
    /\ round_obs.kind = "model_fail"
    /\ pc = "continue"
    /\ round_obs.pre_index = 1
    /\ round_count = 2

\* C10: a round whose before-state capture or dump reported "ERROR" makes
\* no model call and no device operation, round 1 included.
CaptureErrorSkipsRound ==
    round_obs.capture_error => round_obs.vlm = 0 /\ round_obs.ops = <<>>

\* the dispatch of the current round was skipped: the action name is not
\* in the table, or an element action found no elements or an index
\* outside 1 .. len(elements)
SkippedDispatch ==
    /\ round_obs.kind = "dispatched"
    /\ \/ parsed_action.action_name \notin ActionMap
       \/ /\ parsed_action.action_name \in ElementActions
          /\ \/ interactive_elements = <<>>
             \/ /\ parsed_action.action_params # <<>>
                /\ parsed_action.action_params[1].isInt
                /\ ~(/\ 1 <= parsed_action.action_params[1].n
                     /\ parsed_action.action_params[1].n <= Len(interactive_elements))

\* C11: a round whose action has an unknown name, or is an element action
\* with an out-of-range index or an empty element list, invokes no device
\* operation, the reflection pass after the dispatch included.
SkippedDispatchNoDeviceOp == SkippedDispatch => round_obs.ops = <<>>

\* C12: no parsed action of the dispatch table, with whatever parameter
\* list the parser produced, ends the run with an unhandled fault.
DispatchNeverFaults ==
    (parsed_action # None /\ parsed_action.action_name \in ActionMap)
        => exit_kind # "fault"

\* the grid commands of TASK_EXECUTION_GRID_PROMPT (prompt_library.py)
GridActions == {"tap_grid", "long_press_grid", "swipe_grid"}

\* the round began with the grid flag set and went past the capture and
\* the sub-goal check, to the grid branch of the prompt step
GridRoundAtPrompt ==
    /\ round_obs.pre_grid
    /\ round_obs.kind \notin {"none", "begun", "skipped", "all_done"}

\* C13: a round that began with the grid flag set and went on to the
\* prompt step either handles no parsed non-meta action (model failure,
\* parse failure, finish, subgoal_complete, or the action not handled yet)
\* or has the flag cleared by the handling of that action.
GridModeClearedByAction ==
    GridRoundAtPrompt =>
        \/ round_obs.kind \in {"model_fail", "parse_fail", "parsed",
                               "finish", "subgoal_complete"}
        \/ ~grid_mode

\* C14: a round that began with the grid flag set ends with the flag
\* cleared, whatever its outcome, so the following round starts outside
\* grid mode.
GridModeSingleRound ==
    (pc = "continue" /\ round_obs.pre_grid) => ~grid_mode

\* C15: a grid-mode round that went on to the prompt step asks the model
\* for its action, and when the parsed action is a grid command the round
\* invokes exactly one device operation, a tap, long press or swipe.
GridActionInvokesOneOp ==
    GridRoundAtPrompt =>
        /\ round_obs.vlm >= 1
        /\ (/\ pc \in {"reflect", "continue"}
            /\ parsed_action.action_name \in GridActions)
           => /\ Len(round_obs.ops) >= 1
              /\ round_obs.ops[1].op \in {"tap", "long_press", "swipe"}
              /\ \A i \in 2..Len(round_obs.ops) : round_obs.ops[i].op = "back"

\* C16: the task-complete flag starts false; once it is true it stays
\* true, and from then on no round is started, no model call is made and
\* no device operation is invoked: the run only goes on to its cleanup.
TaskCompleteTerminal ==
    /\ ~task_complete
    /\ [][task_complete =>
            /\ task_complete'
            /\ round_count' = round_count
            /\ round_obs'.vlm = round_obs.vlm
            /\ round_obs'.ops = round_obs.ops
            /\ pc' \in {"finally", "returned"}
         ]_vars

\* the model answered finish in round 1 of a budget of two and the run
\* has returned without a second round
TaskCompleteWitness ==
    /\ Returned
    /\ task_complete
    /\ round_obs.kind = "finish"
    /\ round_count = 1
    /\ max_rounds = 2
    /\ cleanup_log # <<>>

\* the element the action of the current round addresses: the action is a
\* tap, long_press or swipe_element whose index is within the element list
ResolvedElement ==
    IF /\ parsed_action.action_name \in ElementActions
       /\ parsed_action.action_params # <<>>
       /\ parsed_action.action_params[1].isInt
       /\ 1 <= parsed_action.action_params[1].n
       /\ parsed_action.action_params[1].n <= Len(interactive_elements)
    THEN interactive_elements[parsed_action.action_params[1].n]
    ELSE ""

\* C17: the documentation map changes only in the reflection pass of a
\* round whose element action resolved its index and reached the device,
\* with a verdict other than INEFFECTIVE and a documentation text other
\* than "N/A"; the change is the entry of the element interacted with.
DocsWrittenOnlyOnInteraction ==
    [][docs' # docs =>
         /\ pc = "reflect"
         /\ ResolvedElement # ""
         /\ interacted_uid = ResolvedElement
         /\ round_obs.ops # <<>>
         /\ round_obs.ops[1].op \in {"tap", "long_press", "swipe"}
         /\ round_obs'.decision \in Decisions \ {"INEFFECTIVE"}
         /\ docs'[ResolvedElement] \notin {DOC_NA, ""}
         /\ \A u \in UIDSet \ {ResolvedElement} : docs'[u] = docs[u]
      ]_vars

\* a long press on the first element was judged SUCCESS and its
\* documentation replaced the one on file
DocsWrittenWitness ==
    /\ pc = "continue"
    /\ parsed_action.action_name = "long_press"
    /\ round_obs.reflected
    /\ round_obs.decision = "SUCCESS"
    /\ docs[UIDNames[1]] = "d1"

\* C18: no step of a run, the cleanup included, removes an entry of the
\* documentation map: a documented identifier stays documented (its text
\* may be overwritten), and the cleanup changes nothing but the two
\* session directories.
DocsNeverRemoved ==
    [][/\ \A u \in UIDSet : docs[u] # "" => docs'[u] # ""
       /\ (pc = "finally" =>
              /\ docs' = docs
              /\ <<ConfigVars, LoopVars, CaptureVars, PlanVars, exit_kind>>' =
                 <<ConfigVars, LoopVars, CaptureVars, PlanVars, exit_kind>>)
      ]_vars

\* the entry on file was overwritten in a round, and the run has returned
\* with both session directories removed and the entry still there
DocsNeverRemovedWitness ==
    /\ Returned
    /\ cleanup_log = <<"screenshots", "xmls">>
    /\ ~screenshot_dir
    /\ ~xml_dir
    /\ docs[UIDNames[1]] = "d1"

\* C19: an interrupt raised in the initial load or in the round loop takes
\* run to its cleanup with nothing removed yet; the cleanup then runs, and
\* only after it does run leave, with the KeyboardInterrupt propagating to
\* its caller.
InterruptPropagates ==
    [][/\ (pc \in TryPcs /\ exit_kind' = "interrupt") =>
              /\ pc' = "finally"
              /\ cleanup_log' = <<>>
       /\ (pc = "finally" /\ exit_kind = "interrupt") =>
              /\ pc' = "returned"
              /\ cleanup_log' # <<>>
              /\ exit_kind' = "interrupt"
              /\ PropagatedFromTry' = "KeyboardInterrupt"
      ]_vars

\* the interrupt came after the dispatch of round 1; both directories
\* were removed and run has left with the interrupt
InterruptPropagatesWitness ==
    /\ Returned
    /\ exit_kind = "interrupt"
    /\ round_count = 1
    /\ round_obs.kind = "dispatched"
    /\ cleanup_log = <<"screenshots", "xmls">>
    /\ PropagatedFromTry = "KeyboardInterrupt"

\* C20: whatever the text, parse_action_response returns None or a dict
\* with exactly the keys thought, action_name, action_params and summary,
\* whose action_name is not empty and holds no uppercase letter.
ParseActionWellFormed ==
    parse_pc = "done" =>
        \/ parse_result = ParseNone
        \/ /\ ~parse_result.is_none
           /\ parse_result.keys = {"thought", "action_name", "action_params", "summary"}
           /\ parse_result.action_name # <<>>
           /\ \A i \in 1..Len(parse_result.action_name) :
                  parse_result.action_name[i] \notin UpperChars

\* an uppercase command with an empty parameter was parsed to its
\* lowercase name
ParseActionWitness ==
    /\ parse_pc = "done"
    /\ response = <<ACTION_MARK, "T", "(", ")">>
    /\ ~parse_result.is_none
    /\ parse_result.action_name = <<"t">>
    /\ parse_result.action_params = <<PStr(<<>>)>>

\* C21: whatever the text, a verdict returned by parse_reflection_response
\* carries one of the four decisions SUCCESS, CONTINUE, INEFFECTIVE, BACK,
\* which are the decisions the reflection pass of the loop acts on.
ReflectionDecisionClosed ==
    (parse_pc = "done" /\ ~parse_result.is_none) =>
        /\ parse_result.decision \in ValidDecisions
        /\ parse_result.decision[1] \in Decisions

\* a decision word in lowercase was returned in capitals
ReflectionDecisionWitness ==
    /\ parse_pc = "done"
    /\ response = <<DECISION_MARK, "back", THOUGHT_MARK, "w">>
    /\ ~parse_result.is_none
    /\ parse_result.decision = <<"BACK">>
    /\ parse_result.documentation = <<DOC_NA>>

\* C22: the last-action summary is never empty: it is the "None" sentinel
\* until a round has acted, the parse-failure summary after a failed round,
\* and otherwise the summary of the parsed action, which is the placeholder
\* when the response has no Summary section.
LastActionSummaryNeverEmpty ==
    /\ last_action_summary # ""
    /\ last_action_summary \in {SUMMARY_INIT, SUMMARY_PARSE_FAIL, SUMMARY_DEFAULT, "sum"}
    /\ (round_count = 0 => last_action_summary = SUMMARY_INIT)
    /\ (FailedRound /\ pc = "continue" => last_action_summary = SUMMARY_PARSE_FAIL)
    /\ (parsed_action # None /\ pc \in {"reflect", "continue"} =>
            /\ last_action_summary = parsed_action.summary
            /\ last_action_summary \in Summaries)
    /\ SummaryText(parse_action_response(<<ACTION_MARK, "a">>).summary) = SUMMARY_DEFAULT
    /\ SummaryText(parse_action_response(<<ACTION_MARK, "a", NL, SUMMARY_MARK, "a">>).summary)
          \in Summaries \ {SUMMARY_DEFAULT}

\* a round parsed an action that carried the placeholder summary, after a
\* round that had failed
PlaceholderSummaryWitness ==
    /\ pc = "continue"
    /\ parsed_action # None
    /\ round_count = 2
    /\ last_action_summary = SUMMARY_DEFAULT

\* the centers of two elements of a returned list
CentersApart(list, min_dist) ==
    \A i, j \in 1..Len(list) :
        i # j => Manhattan(Center(list[i].bbox), Center(list[j].bbox)) >= min_dist

\* C23: whatever the snapshot and the configured minimum distance, no two
\* elements of a returned list have bounding-box centers at Manhattan
\* distance less than min_element_dist.
ReturnedElementsApart ==
    \A r \in 1..Len(extractions) :
        CentersApart(extractions[r].elements, min_element_dist)

\* of three candidates the middle one was dropped for being close to the
\* first, and the third, close only to the dropped one, was kept
ReturnedElementsApartWitness ==
    /\ min_element_dist = 3
    /\ Len(extractions) = 1
    /\ Len(snapshot.nodes) = 3
    /\ extractions[1].nodes = <<1, 3>>

\* reading order of bounding boxes: by top y, then by left x
ReadsBefore(b, c) ==
    b[1][2] < c[1][2] \/ (b[1][2] = c[1][2] /\ b[1][1] <= c[1][1])

\* line 76-83: the nodes that pass the flag and bounds tests
Candidates ==
    {i \in 1..Len(snapshot.nodes) :
        /\ Interactive(snapshot.nodes[i])
        /\ snapshot.nodes[i].bounds.given
        /\ ~BoundsFault(snapshot.nodes[i].bounds)}

NodeBox(i) ==
    LET coords == snapshot.nodes[i].bounds.coords
    IN <<<<coords[1], coords[2]>>, <<coords[3], coords[4]>>>>

\* C24: a returned list is in reading order, sorted by (top y, left x), and
\* when the snapshot's only two candidates are closer than
\* min_element_dist the survivor is the one first in reading order,
\* whatever their order in the tree.
ReturnedInReadingOrder ==
    \A r \in 1..Len(extractions) :
        LET list == extractions[r].elements
        IN /\ \A i, j \in 1..Len(list) : i < j => ReadsBefore(list[i].bbox, list[j].bbox)
           /\ \A a, b \in Candidates :
                (/\ Candidates = {a, b}
                 /\ a # b
                 /\ Manhattan(Center(NodeBox(a)), Center(NodeBox(b))) < min_element_dist
                 /\ ~ReadsBefore(NodeBox(b), NodeBox(a)))
                => extractions[r].nodes = <<a>>

DispatchEnded ==
    /\ parsed_action # None
    /\ \/ round_obs.kind = "dispatched" /\ pc = "reflect"
       \/ round_obs.kind = "fault"

\* line 156 holds for the first parameter of the parsed action
IndexInRange ==
    /\ interactive_elements # <<>>
    /\ parsed_action.action_params # <<>>
    /\ parsed_action.action_params[1].isInt
    /\ 1 <= parsed_action.action_params[1].n
    /\ parsed_action.action_params[1].n <= Len(interactive_elements)

\* C26: for tap, long_press and swipe_element a device operation is invoked
\* only if the element list is non-empty and 1 <= index <= len(elements);
\* otherwise the dispatch returns the empty identifier with no device
\* call; and when a device call is made the identifier returned is that of
\* elements[index-1].
ElementIndexValidated ==
    (DispatchEnded /\ parsed_action.action_name \in ElementActions) =>
        IF IndexInRange
        THEN round_obs.ops # <<>> =>
                interacted_uid = interactive_elements[parsed_action.action_params[1].n]
        ELSE /\ round_obs.kind = "dispatched"
             /\ round_obs.ops = <<>>
             /\ interacted_uid = ""

\* C27: an action whose name is not in the dispatch table invokes no device
\* operation, returns the empty identifier and does not raise, whatever
\* its parameter list.
UnknownActionSkipped ==
    (DispatchEnded /\ parsed_action.action_name \notin ActionMap) =>
        /\ round_obs.kind = "dispatched"
        /\ round_obs.ops = <<>>
        /\ interacted_uid = ""
        /\ exit_kind # "fault"

\* an unknown action with a parameter went through the dispatch
UnknownActionWitness ==
    /\ DispatchEnded
    /\ pc = "reflect"
    /\ parsed_action.action_name = "bogus"
    /\ parsed_action.action_params # <<>>
    /\ interactive_elements # <<>>

\* a parameter of the parser's list as the loop's models it: an integer, the
\* empty string, or some other string
LoopParam(p) == IF p.isInt THEN PInt(p.n) ELSE PStr(IF p.s = <<>> THEN "" ELSE "up")
LoopParams(params) == [i \in 1..Len(params) |-> LoopParam(params[i])]

\* the parameter list parse_action_response returns for `type_text()`
TypeTextEmptyCall ==
    LoopParams(parse_action_response(<<ACTION_MARK, TYPE_TEXT, "(", ")">>).action_params)

\* C28: a type_text action with no argument or with an empty argument, as
\* `type_text()` is parsed, does not invoke the device's type_text
\* operation in that round.
EmptyTypeTextNotSent ==
    (/\ parsed_action # None
     /\ parsed_action.action_name = "type_text"
     /\ parsed_action.action_params \in {<<>>, TypeTextEmptyCall}) =>
        \A i \in 1..Len(round_obs.ops) : round_obs.ops[i].op # "type_text"

\* C29: a round whose parsed action is finish, subgoal_complete or, in
\* labeled mode, grid does not reach the dispatch: no device operation, no
\* after-screenshot and no reflection pass in that round.
MetaActionRoundQuiet ==
    (/\ parsed_action # None
     /\ \/ parsed_action.action_name \in {"finish", "subgoal_complete"}
        \/ parsed_action.action_name = "grid" /\ ~round_obs.pre_grid) =>
        /\ round_obs.kind \in {"parsed", "finish", "subgoal_complete", "grid"}
        /\ round_obs.ops = <<>>
        /\ ~round_obs.after_shot
        /\ ~round_obs.reflected
        /\ round_obs.vlm = 1
        /\ pc # "reflect"

\* a subgoal_complete round ended with elements on screen and budget left
MetaActionRoundWitness ==
    /\ pc = "continue"
    /\ parsed_action # None
    /\ parsed_action.action_name = "subgoal_complete"
    /\ interactive_elements # <<>>
    /\ round_count < max_rounds

\* the action of the current round has been handled and it was `finish`
FinishHandled ==
    /\ parsed_action # None
    /\ parsed_action.action_name = "finish"
    /\ round_obs.kind # "parsed"

\* C30: a finish action, written in any letter case, sets the
\* task-complete flag in its round and ends the loop in the task-complete
\* state with no further round, in labeled mode and in grid mode: a
\* grid-mode round that went on to the prompt step gets the model's action
\* and handles it.
FinishEndsLoop ==
    /\ parse_action_response(<<ACTION_MARK, "T", "a">>).action_name = <<"t", "a">>
    /\ FinishHandled =>
          /\ task_complete
          /\ round_obs.kind = "finish"
          /\ pc \in {"finally", "returned"}
          /\ exit_kind = "complete"
          /\ round_count = round_obs.pre_round + 1
    /\ GridRoundAtPrompt => round_obs.kind # "fault"

\* C31: the sub-goal index changes only in the handling of a parsed
\* subgoal_complete action, which advances it by exactly one and leaves
\* the plan, the grid-mode flag and the task-complete flag as they were; no
\* other action and no parse or capture failure changes the index.
SubGoalAdvanceFrame ==
    [][/\ (current_sub_goal_index' # current_sub_goal_index =>
              /\ pc = "act"
              /\ parsed_action # None
              /\ parsed_action.action_name = "subgoal_complete")
       /\ ((/\ pc = "act"
            /\ pc' = "continue"
            /\ parsed_action # None
            /\ parsed_action.action_name = "subgoal_complete") =>
              /\ current_sub_goal_index' = current_sub_goal_index + 1
              /\ UNCHANGED <<sub_goals, grid_mode, task_complete>>)]_vars

\* a subgoal_complete round advanced the index of a two-step plan from 0 to 1
SubGoalAdvanceWitness ==
    /\ pc = "continue"
    /\ round_obs.kind = "subgoal_complete"
    /\ Len(sub_goals) = 2
    /\ round_obs.pre_index = 0
    /\ current_sub_goal_index = 1
    /\ ~task_complete
    /\ ~grid_mode

\* the removals the finally block attempted
Attempted(step) == \E i \in 1..Len(cleanup_log) : cleanup_log[i] = step

\* C32: the two cleanup steps are independent: once the finally block has
\* run, the removal of the screenshot directory and the removal of the
\* UI-dump directory have both been attempted, whether or not the other
\* one failed, and the cleanup itself raised nothing.
CleanupStepsIndependent ==
    cleanup_log # <<>> =>
        /\ Attempted("screenshots")
        /\ Attempted("xmls")
        /\ pc = "returned"

\* the token is made of digit characters only (str.isdigit)
DigitsOnly(token) == token # <<>> /\ \A i \in 1..Len(token) : token[i] \in DigitChars

\* the token is a decimal number (int() accepts it)
Decimal(token) == token # <<>> /\ \A i \in 1..Len(token) : token[i] \in IntDigits

\* the parameter list holds, in order, each argument of the line: as an
\* integer when the name is not type_text and its token is digits only,
\* as the token's string otherwise
CoercedInOrder(name, args, params) ==
    /\ Len(params) = Len(args)
    /\ \A i \in 1..Len(args) :
          params[i] = IF name # <<TYPE_TEXT>> /\ DigitsOnly(args[i].token)
                      THEN PInt(args[i].n)
                      ELSE PStr(args[i].token)

\* int() raises on some argument of the line
IntRejects(name, args) ==
    /\ name # <<TYPE_TEXT>>
    /\ \E i \in 1..Len(args) : DigitsOnly(args[i].token) /\ ~Decimal(args[i].token)

DecisionSection == ExtractSection(response, DECISION_MARK, THOUGHT_MARK)
ThoughtSection == ExtractSection(response, THOUGHT_MARK, DOCUMENTATION_MARK)

\* the text has a Decision section whose value is none of the four
UnrecognizedDecision ==
    /\ parse_pc = "done"
    /\ DecisionSection # <<>>
    /\ UpperAll(DecisionSection) \notin ValidDecisions

\* C34 as stated: reflection text with a Decision section whose value is
\* not one of the four decisions yields a verdict with decision CONTINUE,
\* not a failed parse.
UnrecognizedDecisionContinues ==
    UnrecognizedDecision =>
        /\ ~parse_result.is_none
        /\ parse_result.decision = <<"CONTINUE">>

\* C34: reflection text with a Decision section whose value is not one of
\* the four decisions and with a non-empty Thought section yields a
\* verdict with decision CONTINUE; without a Thought section the parse
\* fails and returns None.
UnrecognizedDecisionWithThought ==
    UnrecognizedDecision =>
        IF ThoughtSection # <<>>
        THEN /\ ~parse_result.is_none
             /\ parse_result.decision = <<"CONTINUE">>
             /\ parse_result.thought = ThoughtSection
        ELSE parse_result.is_none

\* an unknown decision word followed by a thought was read as CONTINUE
UnrecognizedDecisionWitness ==
    /\ parse_pc = "done"
    /\ response = <<DECISION_MARK, "w", NL, THOUGHT_MARK, "w">>
    /\ parse_result.decision = <<"CONTINUE">>
    /\ parse_result.thought = <<"w">>

\* width and height of a returned bounding box
BoxWidth(bbox) == bbox[2][1] - bbox[1][1]
BoxHeight(bbox) == bbox[2][2] - bbox[1][2]

\* C35: every element a run returns comes from a node flagged clickable or
\* focusable and has a bounding box of width > 0 and height > 0; a node
\* with a zero-width or zero-height box is never returned.
ReturnedElementsNonDegenerate ==
    \A r \in 1..Len(extractions) :
        \A k \in 1..Len(extractions[r].elements) :
            /\ Interactive(snapshot.nodes[extractions[r].nodes[k]])
            /\ BoxWidth(extractions[r].elements[k].bbox) > 0
            /\ BoxHeight(extractions[r].elements[k].bbox) > 0

\* the snapshot is one the function gives up on: lines 65-66 and 115-117
NoSnapshot ==
    snapshot.xml_path = "" \/ snapshot.xml_path = ERROR \/ ~snapshot.well_formed

\* C36: every call returns a list.  For an "ERROR" or empty path or an
\* unparsable snapshot the list is empty; otherwise nodes with missing or
\* malformed bounds are left out and all the other nodes are still
\* processed: each node with usable bounds is returned or is too close to
\* an element returned before it.
ExtractionDegrades ==
    \A r \in 1..Len(extractions) :
        LET res == extractions[r]
        IN IF NoSnapshot
           THEN res.elements = <<>>
           ELSE /\ \A k \in 1..Len(res.nodes) : res.nodes[k] \in Candidates
                /\ \A i \in Candidates :
                      \/ \E k \in 1..Len(res.nodes) : res.nodes[k] = i
                      \/ \E k \in 1..Len(res.nodes) :
                            /\ res.nodes[k] < i
                            /\ Manhattan(Center(NodeBox(i)), Center(res.elements[k].bbox))
                                  < min_element_dist

\* a node with malformed bounds and one without bounds were skipped and
\* the node after them was returned
ExtractionDegradesWitness ==
    /\ Len(extractions) = 1
    /\ Len(snapshot.nodes) = 3
    /\ snapshot.nodes[1].bounds = TextBounds
    /\ snapshot.nodes[2].bounds = NoBounds
    /\ Interactive(snapshot.nodes[1])
    /\ Interactive(snapshot.nodes[2])
    /\ extractions[1].nodes = <<3>>

\* the step that dispatches a device action (line 314)
DispatchStep == pc = "act" /\ round_obs'.ops # round_obs.ops

\* the step in which the reflection pass runs (line 323)
ReflectionStep == ~round_obs.reflected /\ round_obs'.reflected

\* C37: the steps of a round are ordered.  A device action is dispatched
\* only after the round's one model call succeeded and its response parsed
\* to an action; the action dispatched is the one that call produced, which
\* no step between the parse and the end of the round replaces and which a
\* round never inherits from the round before; the reflection pass runs
\* only after the round's dispatch step.
RoundStepsOrdered ==
    [][/\ (DispatchStep =>
             /\ round_obs.kind = "parsed"
             /\ round_obs.vlm = 1
             /\ parsed_action # None
             /\ round_obs'.ops =
                   ExecuteAction(parsed_action.action_name, parsed_action.action_params,
                                 interactive_elements).ops)
       /\ (pc = "loop" /\ pc' = "think" => parsed_action' = None)
       /\ (pc = "think" /\ pc' = "act" =>
             /\ round_obs'.vlm = 1
             /\ (round_obs'.kind = "parsed") = (parsed_action' # None))
       /\ (pc \in {"act", "reflect"} => parsed_action' = parsed_action)
       /\ (ReflectionStep =>
             /\ pc = "reflect"
             /\ round_obs.kind \in {"dispatched", "grid_action"}
             /\ parsed_action # None)]_vars

\* a later round parsed an action, dispatched it and reflected on it
RoundStepsOrderedWitness ==
    /\ pc = "continue"
    /\ round_count = 2
    /\ round_obs.kind = "dispatched"
    /\ round_obs.ops # <<>>
    /\ round_obs.reflected
    /\ round_obs.decision = "SUCCESS"

\* C38: in exploration mode a round that got past its capture goes through
\* prompt building to the model call: it is not ended by the
\* all-sub-goals-complete check and it does not stop at the prompt, so the
\* run ends only by finish, round-budget exhaustion or an interrupt.
ExploreRoundsReachModel ==
    agent_mode = "explore" =>
        /\ round_obs.kind # "all_done"
        /\ (round_obs.kind = "fault" => round_obs.vlm >= 1)
        /\ (pc = "act" => round_obs.vlm = 1)

\* the device operations a step adds to those of the round
AddedOps ==
    SubSeq(round_obs'.ops, Len(round_obs.ops) + 1, Len(round_obs'.ops))

\* lines 316-323 with the reflection pass left out: the action is exempt
\* from reflection or the after-capture reported "ERROR"
ReflectionSkipped ==
    /\ ~round_obs'.reflected
    /\ round_obs'.vlm = round_obs.vlm
    /\ AddedOps = <<>>
    /\ docs' = docs

\* what the reflection step does on each outcome, with `silent` the set
\* of outcomes after which the documentation is left alone ("" stands for
\* a failed model call or an unparsable response)
ReflectionStepDoes(silent) ==
    pc = "reflect" =>
        /\ (parsed_action.action_name \in NoReflectActions =>
               ReflectionSkipped /\ ~round_obs'.after_shot)
        /\ (~round_obs'.reflected => ReflectionSkipped)
        /\ (round_obs'.reflected =>
               /\ round_obs'.after_shot
               /\ round_obs'.vlm = round_obs.vlm + 1
               /\ round_obs'.decision \in Decisions \cup {""}
               /\ (round_obs'.decision = "BACK" => AddedOps = <<DevOp("back", 0, "")>>)
               /\ (round_obs'.decision # "BACK" => AddedOps = <<>>)
               /\ (round_obs'.decision \in silent => docs' = docs))

\* C39 as stated: the reflection pass calls back() once for a BACK verdict
\* and makes no device call otherwise; after a SUCCESS, CONTINUE or
\* INEFFECTIVE verdict, a failed model call or an unparsable response it
\* writes no documentation; it is skipped when the after-capture reports
\* "ERROR" or the action is finish, wait, grid or subgoal_complete.
ReflectionOnlyBacks ==
    [][ReflectionStepDoes({"", "SUCCESS", "CONTINUE", "INEFFECTIVE"})]_vars

\* C39: the reflection pass calls back() once for a BACK verdict and makes
\* no device call otherwise; after an INEFFECTIVE verdict, a failed model
\* call or an unparsable response it writes no documentation (a SUCCESS,
\* CONTINUE or BACK verdict may write the element's documentation); it is
\* skipped when the after-capture reports "ERROR" or the action is finish,
\* wait, grid or subgoal_complete.
ReflectionBacksOnlyOnBack ==
    [][ReflectionStepDoes({"", "INEFFECTIVE"})]_vars

\* a tap was followed by a BACK verdict and one back() call
ReflectionBackWitness ==
    /\ pc = "continue"
    /\ parsed_action.action_name = "tap"
    /\ round_obs.reflected
    /\ round_obs.decision = "BACK"
    /\ Len(round_obs.ops) = 2
    /\ round_obs.ops[2] = DevOp("back", 0, "")

\* the install command at position i of the log succeeded
InstallSucceeded(i) ==
    /\ install_log[i].kind = "install"
    /\ install_log[i].success
    /\ install_log[i].output_ok

\* install commands among the first i entries of the log
InstallsUpTo(i) == Cardinality({j \in 1..i : install_log[j].kind = "install"})

\* C40: install_apk runs at most `retries` install commands and none
\* after one that succeeded; it returns True exactly when some command
\* succeeded with "Success" in its output; it sleeps after a failed
\* command exactly when another attempt follows, so never after the last
\* one; and it runs no command when the APK path does not exist.
InstallApkContract ==
    /\ InstallsUpTo(Len(install_log)) <= retries
    /\ \A i \in 1..Len(install_log) :
          InstallSucceeded(i) => i = Len(install_log) /\ install_pc = "returned"
    /\ IF install_pc = "returned"
       THEN /\ install_result \in {"True", "False"}
            /\ (install_result = "True") =
                  (\E i \in 1..Len(install_log) : InstallSucceeded(i))
            /\ install_log # <<>> => install_log[Len(install_log)].kind = "install"
       ELSE install_result = "none"
    /\ \A i \in 1..Len(install_log) :
          install_log[i].kind = "sleep" =>
              /\ i > 1
              /\ install_log[i - 1].kind = "install"
              /\ ~InstallSucceeded(i - 1)
              /\ InstallsUpTo(i) < retries
    /\ \A i \in 1..Len(install_log) :
          (/\ install_log[i].kind = "install"
           /\ ~InstallSucceeded(i)
           /\ InstallsUpTo(i) < retries) =>
              i < Len(install_log) /\ install_log[i + 1] = Sleep
    /\ ~apk_exists => install_log = <<>>

\* with three attempts allowed the first failed, a sleep followed, and
\* the second succeeded: the call returned True without a third
InstallApkWitness ==
    /\ install_pc = "returned"
    /\ retries = 3
    /\ install_result = "True"
    /\ Len(install_log) = 3
    /\ install_log[1] = InstallCommand(TRUE, FALSE)
    /\ install_log[2] = Sleep

====
